---- MODULE Spec2Model ----
(***************************************************************************)
(* A model of the speech-text normalisation pipeline of the-batch-reader   *)
(* (src/src/speech_text.py): the text transforms, the chunker and the      *)
(* SpeechTextConverter that composes them.                                 *)
(*                                                                         *)
(* A text is a sequence of characters.  A character is a string: a         *)
(* printable ASCII character stands for itself, "\n" "\t" "\r" "\f" are    *)
(* the usual escapes, and every other code point (and the grave accent,    *)
(* "U+0060") is written "U+XXXX".                                          *)
(* An exception raised by a stage is written into the text as one of the   *)
(* marks of ErrorMarks, which no input contains; a result that holds a     *)
(* mark is a call that raised.                                             *)
(***************************************************************************)
EXTENDS Integers, Sequences, FiniteSets, TLC

VARIABLES
    pc,              \* where the program is: "start", "ready" (a converter is built),
                     \* "convert", "converted", "loop", "done", "returned", "raised"
    text,            \* the text variable of the function that is running
    chunk_size,      \* SpeechTextConverter.chunk_size, once pc has left "start"
    caller,          \* the entry point that was called
    stage,           \* convert: the number of its statements that have run
    trace,           \* the stage calls made so far: name, input and output of each
    outputs,         \* the results convert has returned so far
    error,           \* the exception that ended the call, or "none"
    max_chars,       \* chunk_text: its max_chars argument
    sentences,       \* chunk_text: the result of re.split
    k,               \* chunk_text: index of the next sentence of the for loop
    chunks,          \* chunk_text: the chunks emitted so far
    current_chunk,   \* chunk_text: the pending sentences
    current_length,  \* chunk_text: the tracked length of the pending chunk
    origin,          \* chunk_text: for each chunk, the sentences joined into it
    thread,          \* the thread that is running: pc, text, stage and trace are its own
    frames,          \* for each thread that is not running, its pc, text, stage and trace
    lines,           \* flatten_lists: the result of text.split
    line_no,         \* flatten_lists: index of the next line of the for loop
    result,          \* flatten_lists: the lines emitted so far
    list_items,      \* flatten_lists: the pending items
    in_list,         \* flatten_lists: whether the loop is in a list
    input_dir,       \* INPUT_DIR: for each article directory, its metadata and article.txt
    output_dir,      \* OUTPUT_DIR: for each transcript file, its content
    articles,        \* convert_articles: the result of glob
    article_no,      \* convert_articles: index of the next article of the for loop
    converted,       \* convert_articles: the articles converted so far
    skipped          \* convert_articles: the articles skipped so far

callVars == <<caller, stage, trace, outputs, error>>

chunkVars == <<max_chars, sentences, k, chunks, current_chunk, current_length, origin>>

threadVars == <<thread, frames>>

listVars == <<lines, line_no, result, list_items, in_list>>

dirVars == <<input_dir, output_dir, articles, article_no, converted, skipped>>

vars == <<pc, text, chunk_size, callVars, chunkVars, threadVars, listVars, dirVars>>

(***************************************************************************)
(* Characters                                                              *)
(***************************************************************************)

\* The printable ASCII characters, code points 32..126 in order.
ASCII ==
    << " ", "!", "\"", "#", "$", "%", "&", "'", "(", ")", "*", "+", ",", "-", ".", "/",
       "0", "1", "2", "3", "4", "5", "6", "7", "8", "9", ":", ";", "<", "=", ">", "?",
       "@", "A", "B", "C", "D", "E", "F", "G", "H", "I", "J", "K", "L", "M", "N", "O",
       "P", "Q", "R", "S", "T", "U", "V", "W", "X", "Y", "Z", "[", "\\", "]", "^", "_",
       "U+0060", "a", "b", "c", "d", "e", "f", "g", "h", "i", "j", "k", "l", "m", "n", "o",
       "p", "q", "r", "s", "t", "u", "v", "w", "x", "y", "z", "{", "|", "}", "~" >>

Digits == {"0", "1", "2", "3", "4", "5", "6", "7", "8", "9"}

LowerLetters ==
    << "a", "b", "c", "d", "e", "f", "g", "h", "i", "j", "k", "l", "m",
       "n", "o", "p", "q", "r", "s", "t", "u", "v", "w", "x", "y", "z" >>

UpperLetters ==
    << "A", "B", "C", "D", "E", "F", "G", "H", "I", "J", "K", "L", "M",
       "N", "O", "P", "Q", "R", "S", "T", "U", "V", "W", "X", "Y", "Z" >>

LowerSet == {LowerLetters[i] : i \in 1..26}

UpperSet == {UpperLetters[i] : i \in 1..26}

\* [a-zA-Z]
AsciiLetters == LowerSet \cup UpperSet

\* \w of a Python str pattern, on the characters of the model
WordChars == AsciiLetters \cup Digits \cup {"_"}

\* \s of a Python str pattern and str.isspace(), on the characters of the model
SpaceChars == {" ", "\t", "\n", "\r", "\f", "U+000B", "U+00A0"}

ToLowerMap == [c \in UpperSet |-> LowerLetters[CHOOSE i \in 1..26 : UpperLetters[i] = c]]

ToUpperMap == [c \in LowerSet |-> UpperLetters[CHOOSE i \in 1..26 : LowerLetters[i] = c]]

\* str.lower() and str.upper() of one character
LowerChar(c) == IF c \in UpperSet THEN ToLowerMap[c] ELSE c

UpperChar(c) == IF c \in LowerSet THEN ToUpperMap[c] ELSE c

\* str.lower() and str.upper()
Lower(s) == [i \in 1..Len(s) |-> LowerChar(s[i])]

Upper(s) == [i \in 1..Len(s) |-> UpperChar(s[i])]

(***************************************************************************)
(* Strings                                                                 *)
(***************************************************************************)

\* the characters of s, as a set
Range(s) == {s[i] : i \in 1..Len(s)}

\* s[i:] and s[i:j] with 1-based i and exclusive j
From(s, i) == SubSeq(s, i, Len(s))

Slice(s, i, j) == SubSeq(s, i, j - 1)

\* whether the literal lit occurs in s at position i
At(s, i, lit) == i >= 1 /\ i + Len(lit) - 1 <= Len(s) /\ SubSeq(s, i, i + Len(lit) - 1) = lit

\* the first position >= i of s holding a character of set cs, or 0
Find(s, i, cs) ==
    IF \E j \in i..Len(s) : s[j] \in cs
    THEN CHOOSE j \in i..Len(s) : s[j] \in cs /\ \A m \in i..(j - 1) : s[m] \notin cs
    ELSE 0

\* the first position >= i of s holding a character outside set cs, or Len(s) + 1
Span(s, i, cs) ==
    IF \E j \in i..Len(s) : s[j] \notin cs
    THEN CHOOSE j \in i..Len(s) : s[j] \notin cs /\ \A m \in i..(j - 1) : s[m] \in cs
    ELSE Len(s) + 1

\* the last position of s holding a character outside set cs, or 0
SpanBack(s, cs) ==
    IF \E j \in 1..Len(s) : s[j] \notin cs
    THEN CHOOSE j \in 1..Len(s) : s[j] \notin cs /\ \A m \in (j + 1)..Len(s) : s[m] \in cs
    ELSE 0

\* str.strip(): s without its leading and trailing whitespace
Strip(s) == SubSeq(s, Span(s, 1, SpaceChars), SpanBack(s, SpaceChars))

\* The recursions over a text or a list halve it, so that their depth stays
\* logarithmic in its length.

\* F(e), with e evaluated before F is applied to its value: the statements of
\* a function run one after the other, each on the value of the one before
Then(e, F(_)) == CHOOSE r \in {F(v) : v \in {e}} : TRUE

\* the concatenation of parts[lo..hi], sep between two of them
RECURSIVE JoinRange(_, _, _, _)
JoinRange(parts, sep, lo, hi) ==
    IF lo > hi THEN <<>>
    ELSE IF lo = hi THEN parts[lo]
    ELSE LET mid == (lo + hi) \div 2
         IN  JoinRange(parts, sep, lo, mid) \o sep \o JoinRange(parts, sep, mid + 1, hi)

\* sep.join(parts)
Join(parts, sep) == JoinRange(parts, sep, 1, Len(parts))

\* The matches of a pattern in s as re.finditer gives them: leftmost first and not
\* overlapping.  M(s, i) is the end (exclusive) of the pattern's match at position
\* i, or 0 when it does not match there; lookarounds read the original string s.
\* ScanRange scans the positions lo..hi-1 from position start on and gives the
\* matches <<i, e>> that begin there and the position the scan goes on from.
RECURSIVE ScanRange(_, _, _, _, _)
ScanRange(M(_, _), s, lo, hi, start) ==
    IF start >= hi THEN [found |-> <<>>, pos |-> start]
    ELSE IF hi - lo = 1
    THEN Then(M(s, lo),
              LAMBDA e : IF e > lo THEN [found |-> <<<<lo, e>>>>, pos |-> e]
                         ELSE [found |-> <<>>, pos |-> lo + 1])
    ELSE Then(ScanRange(M, s, lo, (lo + hi) \div 2, start),
              LAMBDA left :
                  Then(ScanRange(M, s, (lo + hi) \div 2, hi, left.pos),
                       LAMBDA right : [found |-> left.found \o right.found,
                                       pos |-> right.pos]))

Matches(M(_, _), s) == ScanRange(M, s, 1, Len(s) + 1, 1).found

\* the text before match n of ms, from the end of the match before it
Gap(s, ms, n) == Slice(s, IF n = 1 THEN 1 ELSE ms[n - 1][2], ms[n][1])

\* the text after the last match of ms
Rest(s, ms) == From(s, IF ms = <<>> THEN 1 ELSE ms[Len(ms)][2])

\* for the matches ms[lo..hi]: the text before each and what replaces it
RECURSIVE SubRange(_, _, _, _, _)
SubRange(R(_, _, _), s, ms, lo, hi) ==
    IF lo > hi THEN <<>>
    ELSE IF lo = hi THEN Gap(s, ms, lo) \o R(s, ms[lo][1], ms[lo][2])
    ELSE LET mid == (lo + hi) \div 2
         IN  SubRange(R, s, ms, lo, mid) \o SubRange(R, s, ms, mid + 1, hi)

\* re.sub(pattern, repl, s): R(s, i, e) is what replaces the match s[i:e]
ReSub(M(_, _), R(_, _, _), s) ==
    Then(Matches(M, s), LAMBDA ms : SubRange(R, s, ms, 1, Len(ms)) \o Rest(s, ms))

\* re.split(pattern, s) for a pattern without groups that matches no empty string
ReSplit(M(_, _), s) ==
    Then(Matches(M, s),
         LAMBDA ms : [n \in 1..(Len(ms) + 1) |->
                          IF n <= Len(ms) THEN Gap(s, ms, n) ELSE Rest(s, ms)])

\* the concatenation of F(s[lo]), ..., F(s[hi])
RECURSIVE FlatMapRange(_, _, _, _)
FlatMapRange(F(_), s, lo, hi) ==
    IF lo > hi THEN <<>>
    ELSE IF lo = hi THEN F(s[lo])
    ELSE LET mid == (lo + hi) \div 2
         IN  FlatMapRange(F, s, lo, mid) \o FlatMapRange(F, s, mid + 1, hi)

FlatMap(F(_), s) == FlatMapRange(F, s, 1, Len(s))

(***************************************************************************)
(* Code points and character classes                                       *)
(***************************************************************************)

\* The other characters of the model with their code points: the glyphs the
\* source names, and one or two characters of each class the stages test for.
NamedChars ==
    << <<"U+0000", 0>>,      <<"\t", 9>>,          <<"\n", 10>>,         <<"U+000B", 11>>,
       <<"\f", 12>>,         <<"\r", 13>>,         <<"U+007F", 127>>,    <<"U+00A0", 160>>,
       <<"U+00A3", 163>>,    <<"U+00A5", 165>>,    <<"U+00A7", 167>>,    <<"U+00A9", 169>>,
       <<"U+00AD", 173>>,    <<"U+00AE", 174>>,    <<"U+00B0", 176>>,    <<"U+00B1", 177>>,
       <<"U+00B6", 182>>,    <<"U+00B7", 183>>,    <<"U+00D7", 215>>,    <<"U+00F7", 247>>,
       <<"U+2013", 8211>>,   <<"U+2014", 8212>>,   <<"U+2020", 8224>>,   <<"U+2021", 8225>>,
       <<"U+2022", 8226>>,   <<"U+2026", 8230>>,   <<"U+20AC", 8364>>,   <<"U+200B", 8203>>,
       <<"U+200C", 8204>>,   <<"U+200D", 8205>>,   <<"U+2060", 8288>>,   <<"U+FEFF", 65279>>,
       <<"U+2122", 8482>>,   <<"U+2190", 8592>>,   <<"U+2191", 8593>>,   <<"U+2192", 8594>>,
       <<"U+2193", 8595>>,   <<"U+2194", 8596>>,   <<"U+21D0", 8656>>,   <<"U+21D2", 8658>>,
       <<"U+221E", 8734>>,   <<"U+2248", 8776>>,   <<"U+2260", 8800>>,   <<"U+2264", 8804>>,
       <<"U+2265", 8805>>,   <<"U+2610", 9744>>,   <<"U+2611", 9745>>,   <<"U+2713", 10003>>,
       <<"U+2714", 10004>>,  <<"U+2717", 10007>>,  <<"U+2718", 10008>>,  <<"U+1F600", 128512>>,
       <<"U+1F680", 128640>> >>

NamedSet == {NamedChars[i][1] : i \in 1..Len(NamedChars)}

AsciiSet == {ASCII[i] : i \in 1..Len(ASCII)}

\* every character the model knows the code point of
Universe == AsciiSet \cup NamedSet

\* ord(c), for c in Universe
OrdMap ==
    [c \in Universe |->
        IF c \in AsciiSet
        THEN 31 + (CHOOSE i \in 1..Len(ASCII) : ASCII[i] = c)
        ELSE NamedChars[CHOOSE i \in 1..Len(NamedChars) : NamedChars[i][1] = c][2]]

ord(c) == OrdMap[c]

HexDigits == <<"0", "1", "2", "3", "4", "5", "6", "7", "8", "9", "A", "B", "C", "D", "E", "F">>

\* the name "U+XXXX" of code point n
RECURSIVE HexOf(_, _)
HexOf(n, width) ==
    IF n = 0 /\ width <= 0 THEN ""
    ELSE HexOf(n \div 16, width - 1) \o HexDigits[(n % 16) + 1]

CodePointName(n) == "U+" \o HexOf(n, 4)

MaxCodePoint == 1114111

\* the character of code point n, 0 <= n <= MaxCodePoint
CharOf(n) ==
    IF \E c \in Universe : OrdMap[c] = n
    THEN CHOOSE c \in Universe : OrdMap[c] = n
    ELSE CodePointName(n)

\* unicodedata.category(c) = 'Cc' and = 'Cf'
ControlChars == {"U+0000", "\t", "\n", "U+000B", "\f", "\r", "U+007F"}

FormatChars == {"U+00AD", "U+200B", "U+200C", "U+200D", "U+2060", "U+FEFF"}

\* the exceptions a stage can raise, as marks in the text
ErrorMarks == {"!ValueError", "!OverflowError", "!IndexError"}

\* whether the call that returned t raised
Raised(t) == \E i \in 1..Len(t) : t[i] \in ErrorMarks

(***************************************************************************)
(* Python integers: unbounded, so kept as a sign and base-1000 digits,     *)
(* least significant first, without leading zeros (0 has no digits).       *)
(***************************************************************************)

RECURSIVE NatLimbs(_)
NatLimbs(n) == IF n = 0 THEN <<>> ELSE <<n % 1000>> \o NatLimbs(n \div 1000)

\* the Python integer of a small integer v
PyInt(v) == [neg |-> v < 0, limbs |-> NatLimbs(IF v < 0 THEN -v ELSE v)]

DigitValue(c) == ord(c) - 48

\* the value of the decimal digits ds, fewer than ten of them
RECURSIVE DecValue(_)
DecValue(ds) ==
    IF ds = <<>> THEN 0
    ELSE 10 * DecValue(SubSeq(ds, 1, Len(ds) - 1)) + DigitValue(ds[Len(ds)])

\* the base-1000 digits of the decimal digits ds, which has no leading zero
RECURSIVE DecLimbs(_)
DecLimbs(ds) ==
    IF ds = <<>> THEN <<>>
    ELSE IF Len(ds) <= 3 THEN <<DecValue(ds)>>
    ELSE <<DecValue(SubSeq(ds, Len(ds) - 2, Len(ds)))>> \o DecLimbs(SubSeq(ds, 1, Len(ds) - 3))

\* int(ds) for a string of decimal digits
ParseInt(ds) == [neg |-> FALSE, limbs |-> DecLimbs(From(ds, Span(ds, 1, {"0"})))]

\* the value of n, for -10^9 < n < 10^9
SmallValue(n) ==
    LET l == n.limbs
        v == (IF Len(l) >= 1 THEN l[1] ELSE 0)
             + (IF Len(l) >= 2 THEN 1000 * l[2] ELSE 0)
             + (IF Len(l) >= 3 THEN 1000000 * l[3] ELSE 0)
    IN  IF n.neg THEN -v ELSE v

IsSmall(n) == Len(n.limbs) <= 3

\* n > 2^31 - 1, for n >= 0: the values chr() cannot take as a C int
ExceedsCInt(n) ==
    \/ Len(n.limbs) > 4
    \/ /\ Len(n.limbs) = 4
       /\ \/ n.limbs[4] > 2
          \/ n.limbs[4] = 2 /\ SmallValue([n EXCEPT !.limbs = SubSeq(n.limbs, 1, 3)]) > 147483647

\* chr(n) for n >= 0, as a text of one character; it raises past the last code point
chr(n) ==
    IF ExceedsCInt(n) THEN <<"!OverflowError">>
    ELSE IF ~IsSmall(n) \/ SmallValue(n) > MaxCodePoint THEN <<"!ValueError">>
    ELSE <<CharOf(SmallValue(n))>>

(***************************************************************************)
(* Rule 1: strip_markdown and strip_html                                   *)
(***************************************************************************)

\* str.replace(old, new), as a pattern and its replacement
LiteralAt(old, s, i) == IF At(s, i, old) THEN i + Len(old) ELSE 0

Replace(s, old, new) ==
    ReSub(LAMBDA t, i : LiteralAt(old, t, i), LAMBDA t, i, e : new, s)

\* the replacement '' and the replacement r'\1' of a pattern whose group lies
\* between an opening of `open' characters and a closing of `close' characters
Nothing(s, i, e) == <<>>

Inner(open, close, s, i, e) == Slice(s, i + open, e - close)

\* open [^c]+ close, for a closing literal that starts with the character c:
\* the group runs to the first c, where the closing literal has to stand
Delimited(open, c, close, s, i) ==
    IF At(s, i, open) /\ i + Len(open) <= Len(s) /\ s[i + Len(open)] # c
    THEN LET j == Find(s, i + Len(open), {c})
         IN  IF j > 0 /\ At(s, j, close) THEN j + Len(close) ELSE 0
    ELSE 0

\* ```[\s\S]*?```
FindLiteral(s, i, lit) ==
    IF \E j \in i..Len(s) : At(s, j, lit)
    THEN CHOOSE j \in i..Len(s) : At(s, j, lit) /\ \A m \in i..(j - 1) : ~At(s, m, lit)
    ELSE 0

Fence == <<"U+0060", "U+0060", "U+0060">>

CodeBlock(s, i) ==
    IF At(s, i, Fence)
    THEN LET j == FindLiteral(s, i + 3, Fence) IN IF j > 0 THEN j + 3 ELSE 0
    ELSE 0

\* `([^`]+)`
InlineCode(s, i) == Delimited(<<"U+0060">>, "U+0060", <<"U+0060">>, s, i)

\* \]\([^)]+\) at position j
LinkTarget(s, j) ==
    IF At(s, j, <<"]", "(">>) /\ j + 2 <= Len(s) /\ s[j + 2] # ")"
    THEN LET c == Find(s, j + 2, {")"}) IN IF c > 0 THEN c + 1 ELSE 0
    ELSE 0

\* !\[([^\]]*)\]\([^)]+\)
Image(s, i) ==
    IF At(s, i, <<"!", "[">>)
    THEN LET j == Find(s, i + 2, {"]"}) IN IF j > 0 THEN LinkTarget(s, j) ELSE 0
    ELSE 0

ImageAlt(s, i, e) == Slice(s, i + 2, Find(s, i + 2, {"]"}))

\* \[([^\]]+)\]\([^)]+\)
Link(s, i) ==
    IF s[i] = "[" /\ i + 1 <= Len(s) /\ s[i + 1] # "]"
    THEN LET j == Find(s, i + 1, {"]"}) IN IF j > 0 THEN LinkTarget(s, j) ELSE 0
    ELSE 0

LinkText(s, i, e) == Slice(s, i + 1, Find(s, i + 1, {"]"}))

\* ^ under re.MULTILINE
LineStart(s, i) == i = 1 \/ s[i - 1] = "\n"

\* ^#{1,6}\s+ under re.MULTILINE
Header(s, i) ==
    IF LineStart(s, i) /\ s[i] = "#"
    THEN LET j == Span(s, i, {"#"})
         IN  IF j - i <= 6 /\ j <= Len(s) /\ s[j] \in SpaceChars
             THEN Span(s, j, SpaceChars)
             ELSE 0
    ELSE 0

\* \*\*([^*]+)\*\* and __([^_]+)__
BoldStar(s, i) == Delimited(<<"*", "*">>, "*", <<"*", "*">>, s, i)

BoldUnderscore(s, i) == Delimited(<<"_", "_">>, "_", <<"_", "_">>, s, i)

\* (?<!\w) at position i and (?!\w) at position e
NoWordBefore(s, i) == i = 1 \/ s[i - 1] \notin WordChars

NoWordAt(s, e) == e > Len(s) \/ s[e] \notin WordChars

\* (?<!\w)\*([^*]+)\*(?!\w) and (?<!\w)_([^_]+)_(?!\w)
Italic(c, s, i) ==
    IF NoWordBefore(s, i)
    THEN LET e == Delimited(<<c>>, c, <<c>>, s, i)
         IN  IF e > 0 /\ NoWordAt(s, e) THEN e ELSE 0
    ELSE 0

ItalicStar(s, i) == Italic("*", s, i)

ItalicUnderscore(s, i) == Italic("_", s, i)

\* ~~([^~]+)~~
Strikethrough(s, i) == Delimited(<<"~", "~">>, "~", <<"~", "~">>, s, i)

Inner1(s, i, e) == Inner(1, 1, s, i, e)

Inner2(s, i, e) == Inner(2, 2, s, i, e)

\* the statements of strip_markdown, one substitution each
RemoveCodeBlocks(t) == ReSub(CodeBlock, Nothing, t)

UnwrapInlineCode(t) == ReSub(InlineCode, Inner1, t)

UnwrapImages(t) == ReSub(Image, ImageAlt, t)

UnwrapLinks(t) == ReSub(Link, LinkText, t)

RemoveHeaders(t) == ReSub(Header, Nothing, t)

UnwrapBoldStar(t) == ReSub(BoldStar, Inner2, t)

UnwrapBoldUnderscore(t) == ReSub(BoldUnderscore, Inner2, t)

UnwrapItalicStar(t) == ReSub(ItalicStar, Inner1, t)

UnwrapItalicUnderscore(t) == ReSub(ItalicUnderscore, Inner1, t)

UnwrapStrikethrough(t) == ReSub(Strikethrough, Inner2, t)

strip_markdown(t) ==
    Then(Then(Then(Then(Then(Then(Then(Then(Then(Then(t,
        RemoveCodeBlocks), UnwrapInlineCode), UnwrapImages), UnwrapLinks),
        RemoveHeaders), UnwrapBoldStar), UnwrapBoldUnderscore), UnwrapItalicStar),
        UnwrapItalicUnderscore), UnwrapStrikethrough)

\* <[^>]+>
Tag(s, i) == Delimited(<<"<">>, ">", <<">">>, s, i)

\* a strip_html that leaves the tags in
KeepTags(t) == t

\* re.sub(r'<[^>]+>', '', text)
RemoveTags(t) == ReSub(Tag, Nothing, t)

html_entities ==
    << << <<"&", "a", "m", "p", ";">>, <<"&">> >>,
       << <<"&", "l", "t", ";">>, <<"<">> >>,
       << <<"&", "g", "t", ";">>, <<">">> >>,
       << <<"&", "q", "u", "o", "t", ";">>, <<"\"">> >>,
       << <<"&", "a", "p", "o", "s", ";">>, <<"'">> >>,
       << <<"&", "n", "b", "s", "p", ";">>, <<" ">> >>,
       << <<"&", "#", "3", "9", ";">>, <<"'">> >>,
       << <<"&", "m", "d", "a", "s", "h", ";">>, <<"U+2014">> >>,
       << <<"&", "n", "d", "a", "s", "h", ";">>, <<"U+2013">> >>,
       << <<"&", "h", "e", "l", "l", "i", "p", ";">>, <<"U+2026">> >> >>

\* "for old, new in table: text = text.replace(old, new)", for the entries
\* lo..hi of the table in their order
RECURSIVE ReplaceRange(_, _, _, _)
ReplaceRange(t, table, lo, hi) ==
    IF lo > hi THEN t
    ELSE IF lo = hi THEN Replace(t, table[lo][1], table[lo][2])
    ELSE LET mid == (lo + hi) \div 2
         IN  Then(ReplaceRange(t, table, lo, mid),
                  LAMBDA v : ReplaceRange(v, table, mid + 1, hi))

ReplaceEach(t, table) == ReplaceRange(t, table, 1, Len(table))

\* &#(\d+);
NumericEntity(s, i) ==
    IF At(s, i, <<"&", "#">>) /\ i + 2 <= Len(s) /\ s[i + 2] \in Digits
    THEN LET j == Span(s, i + 2, Digits)
         IN  IF j <= Len(s) /\ s[j] = ";" THEN j + 1 ELSE 0
    ELSE 0

\* lambda m: chr(int(m.group(1)))
DecodeNumeric(s, i, e) == chr(ParseInt(Slice(s, i + 2, e - 1)))

\* "for entity, char in html_entities.items(): text = text.replace(entity, char)"
DecodeEntities(t) == ReplaceEach(t, html_entities)

\* re.sub(r'&#(\d+);', lambda m: chr(int(m.group(1))), text)
DecodeNumericEntities(t) == ReSub(NumericEntity, DecodeNumeric, t)

strip_html(t) == Then(Then(Then(t, RemoveTags), DecodeEntities), DecodeNumericEntities)

(***************************************************************************)
(* Rule 2: normalize_whitespace                                            *)
(***************************************************************************)

\* [^\S\n]+
BlankRun(s, i) ==
    IF s[i] \in SpaceChars \ {"\n"} THEN Span(s, i, SpaceChars \ {"\n"}) ELSE 0

OneSpace(s, i, e) == <<" ">>

\* \n{3,}
NewlineRun(s, i) ==
    IF At(s, i, <<"\n", "\n", "\n">>) THEN Span(s, i, {"\n"}) ELSE 0

TwoNewlines(s, i, e) == <<"\n", "\n">>

\* text.split('\n')
IsNewline(s, i) == IF s[i] = "\n" THEN i + 1 ELSE 0

SplitLines(s) == ReSplit(IsNewline, s)

\* [line.strip() for line in lines]
StripEach(split) == [i \in 1..Len(split) |-> Strip(split[i])]

\* the statements of normalize_whitespace
CrLfToLf(t) == Replace(t, <<"\r", "\n">>, <<"\n">>)

CrToLf(t) == Replace(t, <<"\r">>, <<"\n">>)

TabsToSpaces(t) == Replace(t, <<"\t">>, <<" ">>)

CollapseBlanks(t) == ReSub(BlankRun, OneSpace, t)

\* a normalize_whitespace that forgets to strip the lines
KeepLines(t) == t

StripLines(t) == Join(StripEach(SplitLines(t)), <<"\n">>)

CollapseNewlines(t) == ReSub(NewlineRun, TwoNewlines, t)

normalize_whitespace(t) ==
    Then(Then(Then(Then(Then(Then(Then(t,
        CrLfToLf), CrToLf), TabsToSpaces), CollapseBlanks), StripLines),
        CollapseNewlines), Strip)

(***************************************************************************)
(* Rule 3: remove_dangerous_punctuation                                    *)
(***************************************************************************)

\* \[([^\]]*)\]
Bracketed(s, i) ==
    IF s[i] = "["
    THEN LET j == Find(s, i + 1, {"]"}) IN IF j > 0 THEN j + 1 ELSE 0
    ELSE 0

\* the statements of remove_dangerous_punctuation
RemoveChar(c, t) == Replace(t, <<c>>, <<>>)

RemoveCurly(t) == Then(RemoveChar("{", t), LAMBDA v : RemoveChar("}", v))

RemoveAngle(t) == Then(RemoveChar("<", t), LAMBDA v : RemoveChar(">", v))

UnwrapSquare(t) == ReSub(Bracketed, Inner1, t)

remove_dangerous_punctuation(t) == Then(Then(Then(t, RemoveCurly), RemoveAngle), UnwrapSquare)

(***************************************************************************)
(* Rule 4: strip_control_characters, replace_special_unicode, remove_emojis*)
(***************************************************************************)

\* the body of "for char in text": what one character appends to result
KeptAs(c) ==
    IF c = "\n" THEN <<c>>
    ELSE IF c \in ControlChars \cup FormatChars THEN <<>>
    ELSE IF c = "U+00A0" THEN <<" ">>
    ELSE IF c \in {"U+200B", "U+200C", "U+200D", "U+2060", "U+FEFF"} THEN <<>>
    ELSE <<c>>

strip_control_characters(t) == FlatMap(KeptAs, t)

replacements ==
    <<
       << <<"U+2192">>, <<" ", "a", "r", "r", "o", "w", " ">> >>,
       << <<"U+2190">>, <<" ", "a", "r", "r", "o", "w", " ">> >>,
       << <<"U+2191">>, <<" ", "a", "r", "r", "o", "w", " ">> >>,
       << <<"U+2193">>, <<" ", "a", "r", "r", "o", "w", " ">> >>,
       << <<"U+21D2">>, <<" ", "i", "m", "p", "l", "i", "e", "s", " ">> >>,
       << <<"U+21D0">>, <<" ", "i", "m", "p", "l", "i", "e", "d", " ", "b", "y", " ">> >>,
       << <<"U+2194">>, <<" ", "b", "i", "d", "i", "r", "e", "c", "t", "i", "o", "n", "a", "l", " ", "a", "r", "r", "o", "w", " ">> >>,
       << <<"U+2713">>, <<" ", "c", "h", "e", "c", "k", " ", "m", "a", "r", "k", " ">> >>,
       << <<"U+2714">>, <<" ", "c", "h", "e", "c", "k", " ", "m", "a", "r", "k", " ">> >>,
       << <<"U+2717">>, <<" ", "c", "r", "o", "s", "s", " ">> >>,
       << <<"U+2718">>, <<" ", "c", "r", "o", "s", "s", " ">> >>,
       << <<"U+2611">>, <<" ", "c", "h", "e", "c", "k", "e", "d", " ", "b", "o", "x", " ">> >>,
       << <<"U+2610">>, <<" ", "u", "n", "c", "h", "e", "c", "k", "e", "d", " ", "b", "o", "x", " ">> >>,
       << <<"U+00D7">>, <<" ", "t", "i", "m", "e", "s", " ">> >>,
       << <<"U+00F7">>, <<" ", "d", "i", "v", "i", "d", "e", "d", " ", "b", "y", " ">> >>,
       << <<"U+00B1">>, <<" ", "p", "l", "u", "s", " ", "o", "r", " ", "m", "i", "n", "u", "s", " ">> >>,
       << <<"U+2248">>, <<" ", "a", "p", "p", "r", "o", "x", "i", "m", "a", "t", "e", "l", "y", " ">> >>,
       << <<"U+2260">>, <<" ", "n", "o", "t", " ", "e", "q", "u", "a", "l", " ", "t", "o", " ">> >>,
       << <<"U+2264">>, <<" ", "l", "e", "s", "s", " ", "t", "h", "a", "n", " ", "o", "r", " ", "e", "q", "u", "a", "l", " ", "t", "o", " ">> >>,
       << <<"U+2265">>, <<" ", "g", "r", "e", "a", "t", "e", "r", " ", "t", "h", "a", "n", " ", "o", "r", " ", "e", "q", "u", "a", "l", " ", "t", "o", " ">> >>,
       << <<"U+221E">>, <<" ", "i", "n", "f", "i", "n", "i", "t", "y", " ">> >>,
       << <<"U+00A9">>, <<" ", "c", "o", "p", "y", "r", "i", "g", "h", "t", " ">> >>,
       << <<"U+00AE">>, <<" ", "r", "e", "g", "i", "s", "t", "e", "r", "e", "d", " ", "t", "r", "a", "d", "e", "m", "a", "r", "k", " ">> >>,
       << <<"U+2122">>, <<" ", "t", "r", "a", "d", "e", "m", "a", "r", "k", " ">> >>,
       << <<"U+2022">>, <<",", " ">> >>,
       << <<"U+00B7">>, <<" ">> >>,
       << <<"U+2026">>, <<".", ".", ".">> >>,
       << <<"U+00A7">>, <<" ", "s", "e", "c", "t", "i", "o", "n", " ">> >>,
       << <<"U+00B6">>, <<" ", "p", "a", "r", "a", "g", "r", "a", "p", "h", " ">> >>,
       << <<"U+2020">>, <<>> >>,
       << <<"U+2021">>, <<>> >>,
       << <<"U+00B0">>, <<" ", "d", "e", "g", "r", "e", "e", "s", " ">> >>
    >>

replace_special_unicode(t) == ReplaceEach(t, replacements)

\* the ranges of emoji_pattern, as pairs of code points
EmojiRanges ==
    << <<128512, 128591>>,   \* 1F600-1F64F emoticons
       <<127744, 128511>>,   \* 1F300-1F5FF symbols & pictographs
       <<128640, 128767>>,   \* 1F680-1F6FF transport & map symbols
       <<128768, 128895>>,   \* 1F700-1F77F alchemical symbols
       <<128896, 129023>>,   \* 1F780-1F7FF Geometric Shapes Extended
       <<129024, 129279>>,   \* 1F800-1F8FF Supplemental Arrows-C
       <<129280, 129535>>,   \* 1F900-1F9FF Supplemental Symbols and Pictographs
       <<129536, 129647>>,   \* 1FA00-1FA6F Chess Symbols
       <<129648, 129791>>,   \* 1FA70-1FAFF Symbols and Pictographs Extended-A
       <<9986, 10160>>,      \* 2702-27B0 Dingbats
       <<9410, 127569>> >>   \* 24C2-1F251 Enclosed characters

EmojiChars ==
    {c \in Universe :
        \E r \in 1..Len(EmojiRanges) : EmojiRanges[r][1] <= ord(c) /\ ord(c) <= EmojiRanges[r][2]}

\* one match of emoji_pattern
EmojiRun(s, i) == IF s[i] \in EmojiChars THEN Span(s, i, EmojiChars) ELSE 0

remove_emojis(t) == ReSub(EmojiRun, Nothing, t)

(***************************************************************************)
(* Rule 5: _number_to_words and normalize_numbers                          *)
(***************************************************************************)

\* the characters of the string w
Chars(w) == [i \in 1..Len(w) |-> SubSeq(w, i, i)]

\* \b at position i of s: exactly one of s[i - 1] and s[i] is a word character
Boundary(s, i) ==
    (i > 1 /\ i - 1 <= Len(s) /\ s[i - 1] \in WordChars)
        # (i >= 1 /\ i <= Len(s) /\ s[i] \in WordChars)

ONES ==
    << "", "one", "two", "three", "four", "five", "six", "seven", "eight", "nine",
       "ten", "eleven", "twelve", "thirteen", "fourteen", "fifteen", "sixteen",
       "seventeen", "eighteen", "nineteen" >>

TENS == << "", "", "twenty", "thirty", "forty", "fifty", "sixty", "seventy", "eighty", "ninety" >>

SCALES == << "", "thousand", "million", "billion", "trillion" >>

ORDINALS ==
    << <<"1st", "first">>, <<"2nd", "second">>, <<"3rd", "third">>, <<"4th", "fourth">>,
       <<"5th", "fifth">>, <<"6th", "sixth">>, <<"7th", "seventh">>, <<"8th", "eighth">>,
       <<"9th", "ninth">>, <<"10th", "tenth">>, <<"11th", "eleventh">>, <<"12th", "twelfth">>,
       <<"13th", "thirteenth">>, <<"14th", "fourteenth">>, <<"15th", "fifteenth">>,
       <<"16th", "sixteenth">>, <<"17th", "seventeenth">>, <<"18th", "eighteenth">>,
       <<"19th", "nineteenth">>, <<"20th", "twentieth">>, <<"21st", "twenty-first">>,
       <<"22nd", "twenty-second">>, <<"23rd", "twenty-third">>, <<"24th", "twenty-fourth">>,
       <<"25th", "twenty-fifth">>, <<"26th", "twenty-sixth">>, <<"27th", "twenty-seventh">>,
       <<"28th", "twenty-eighth">>, <<"29th", "twenty-ninth">>, <<"30th", "thirtieth">>,
       <<"31st", "thirty-first">> >>

\* _number_to_words(v) for 0 < v < 1000: the branches n < 20, n < 100, n < 1000
SmallWords(v) ==
    LET BelowHundred(u) ==
            IF u < 20 THEN Chars(ONES[u + 1])
            ELSE IF u % 10 # 0
            THEN Chars(TENS[(u \div 10) + 1]) \o <<"-">> \o Chars(ONES[(u % 10) + 1])
            ELSE Chars(TENS[(u \div 10) + 1])
    IN  IF v < 100 THEN BelowHundred(v)
        ELSE IF v % 100 # 0
        THEN Chars(ONES[(v \div 100) + 1]) \o Chars(" hundred ") \o BelowHundred(v % 100)
        ELSE Chars(ONES[(v \div 100) + 1]) \o Chars(" hundred")

\* a loop that appends a part for a chunk of zero as well
ZeroScalePart(limbs, idx) ==
    IF idx = 1 THEN <<SmallWords(limbs[idx])>>
    ELSE IF idx > Len(SCALES) THEN <<<<"!IndexError">>>>
    ELSE <<SmallWords(limbs[idx]) \o <<" ">> \o Chars(SCALES[idx])>>

\* the loop "while n > 0: n, chunk = divmod(n, 1000)": its chunks are the
\* base-1000 digits of n; part(idx) is what the pass with scale_idx = idx - 1 appends
ScalePart(limbs, idx) ==
    IF limbs[idx] = 0 THEN <<>>
    ELSE IF idx = 1 THEN <<SmallWords(limbs[idx])>>
    ELSE IF idx > Len(SCALES) THEN <<<<"!IndexError">>>>
    ELSE <<SmallWords(limbs[idx]) \o <<" ">> \o Chars(SCALES[idx])>>

\* parts of the groups idx..1, in that order: reversed(parts)
RECURSIVE ReversedParts(_, _)
ReversedParts(limbs, idx) ==
    IF idx = 0 THEN <<>> ELSE ScalePart(limbs, idx) \o ReversedParts(limbs, idx - 1)

number_to_words(n) ==
    LET Words(limbs) ==
            IF Len(limbs) = 1 THEN SmallWords(limbs[1])
            ELSE IF \E idx \in 1..Len(limbs) : idx > Len(SCALES) /\ limbs[idx] # 0
            THEN <<"!IndexError">>
            ELSE Join(ReversedParts(limbs, Len(limbs)), <<" ">>)
    IN  IF n.limbs = <<>> THEN Chars("zero")
        ELSE IF n.neg THEN Chars("negative ") \o Words(n.limbs)
        ELSE Words(n.limbs)

\* \b<ordinal>\b with re.IGNORECASE
OrdinalAt(ordinal, s, i) ==
    LET e == i + Len(ordinal)
    IN  IF /\ e - 1 <= Len(s)
           /\ Lower(SubSeq(s, i, e - 1)) = ordinal
           /\ Boundary(s, i)
           /\ Boundary(s, e)
        THEN e ELSE 0

\* "for ordinal, word in ORDINALS.items(): text = re.sub(...)", entries lo..hi
RECURSIVE OrdinalRange(_, _, _)
OrdinalRange(t, lo, hi) ==
    IF lo = hi
    THEN ReSub(LAMBDA s, i : OrdinalAt(Chars(ORDINALS[lo][1]), s, i),
               LAMBDA s, i, e : Chars(ORDINALS[lo][2]), t)
    ELSE LET mid == (lo + hi) \div 2
         IN  Then(OrdinalRange(t, lo, mid), LAMBDA v : OrdinalRange(v, mid + 1, hi))

SpellOrdinals(t) == OrdinalRange(t, 1, Len(ORDINALS))

\* the year reading shared by replace_number and format_year: 1900 <= year <= 2099
YearWords(year) ==
    LET first_half == SmallWords(year \div 100)
        second_half == year % 100
    IN  IF second_half = 0 THEN first_half \o Chars(" hundred")
        ELSE IF second_half < 10 THEN first_half \o Chars(" oh ") \o SmallWords(second_half)
        ELSE first_half \o <<" ">> \o SmallWords(second_half)

\* \b(\d+)\b
Number(s, i) ==
    IF i <= Len(s) /\ s[i] \in Digits /\ Boundary(s, i)
    THEN LET e == Span(s, i, Digits) IN IF Boundary(s, e) THEN e ELSE 0
    ELSE 0

replace_number(s, i, e) ==
    LET num_str == Slice(s, i, e)
        num == ParseInt(num_str)
    IN  IF /\ Len(num_str) = 4
           /\ IsSmall(num)
           /\ 1900 <= SmallValue(num)
           /\ SmallValue(num) <= 2099
        THEN YearWords(SmallValue(num))
        ELSE number_to_words(num)

SpellNumbers(t) == ReSub(Number, replace_number, t)

normalize_numbers(t) == Then(Then(t, SpellOrdinals), SpellNumbers)

(***************************************************************************)
(* Rule 6: normalize_dates                                                 *)
(***************************************************************************)

MONTHS ==
    << <<"01", "January">>, <<"1", "January">>, <<"02", "February">>, <<"2", "February">>,
       <<"03", "March">>, <<"3", "March">>, <<"04", "April">>, <<"4", "April">>,
       <<"05", "May">>, <<"5", "May">>, <<"06", "June">>, <<"6", "June">>,
       <<"07", "July">>, <<"7", "July">>, <<"08", "August">>, <<"8", "August">>,
       <<"09", "September">>, <<"9", "September">>, <<"10", "October">>,
       <<"11", "November">>, <<"12", "December">> >>

\* a lookup that has no default for a month the table lacks
MonthOrNone(month) ==
    IF \E idx \in 1..Len(MONTHS) : Chars(MONTHS[idx][1]) = month
    THEN Chars(MONTHS[CHOOSE idx \in 1..Len(MONTHS) : Chars(MONTHS[idx][1]) = month][2])
    ELSE Chars("None")

\* MONTHS.get(month, month)
MonthName(month) ==
    IF \E idx \in 1..Len(MONTHS) : Chars(MONTHS[idx][1]) = month
    THEN Chars(MONTHS[CHOOSE idx \in 1..Len(MONTHS) : Chars(MONTHS[idx][1]) = month][2])
    ELSE month

\* a format_year without the reading of years as two pairs
format_cardinal(year_str) == number_to_words(ParseInt(year_str))

format_year(year_str) ==
    LET year == ParseInt(year_str)
    IN  IF IsSmall(year) /\ 1900 <= SmallValue(year) /\ SmallValue(year) <= 2099
        THEN YearWords(SmallValue(year))
        ELSE number_to_words(year)

format_day(day_str) == number_to_words(ParseInt(day_str))

\* between lo and hi decimal digits at position i, as many as there are: the
\* position after them, or 0
DigitsAt(s, i, lo, hi) ==
    LET e == Span(s, i, Digits)
        n == IF e - i > hi THEN hi ELSE e - i
    IN  IF i <= Len(s) /\ n >= lo THEN i + n ELSE 0

\* the positions after the three groups of \b(\d{a1,a2})<sep>(\d{b1,b2})<sep>(\d{c})\b
\* at position i, or <<>>. A group of one or two digits gives back its second
\* digit only to a separator, which is no digit, so the longest run decides.
DateGroups(s, i, a1, a2, b1, b2, c, sep) ==
    LET e1 == DigitsAt(s, i, a1, a2)
        e2 == IF e1 > 0 /\ At(s, e1, <<sep>>) THEN DigitsAt(s, e1 + 1, b1, b2) ELSE 0
        e3 == IF e2 > 0 /\ At(s, e2, <<sep>>) THEN DigitsAt(s, e2 + 1, c, c) ELSE 0
    IN  IF Boundary(s, i) /\ e3 > 0 /\ Boundary(s, e3) THEN <<e1, e2, e3>> ELSE <<>>

\* \b(\d{1,2})/(\d{1,2})/(\d{4})\b
UsDate(s, i) ==
    LET g == DateGroups(s, i, 1, 2, 1, 2, 4, "/") IN IF g = <<>> THEN 0 ELSE g[3]

replace_us_date(s, i, e) ==
    LET g == DateGroups(s, i, 1, 2, 1, 2, 4, "/")
        month == Slice(s, i, g[1])
        day == Slice(s, g[1] + 1, g[2])
        year == Slice(s, g[2] + 1, g[3])
    IN  MonthName(month) \o <<" ">> \o format_day(day) \o <<",", " ">> \o format_year(year)

\* \b(\d{4})-(\d{2})-(\d{2})\b
IsoDate(s, i) ==
    LET g == DateGroups(s, i, 4, 4, 2, 2, 2, "-") IN IF g = <<>> THEN 0 ELSE g[3]

replace_iso_date(s, i, e) ==
    LET g == DateGroups(s, i, 4, 4, 2, 2, 2, "-")
        year == Slice(s, i, g[1])
        month == Slice(s, g[1] + 1, g[2])
        day == Slice(s, g[2] + 1, g[3])
    IN  MonthName(month) \o <<" ">> \o format_day(day) \o <<",", " ">> \o format_year(year)

SpellUsDates(t) == ReSub(UsDate, replace_us_date, t)

SpellIsoDates(t) == ReSub(IsoDate, replace_iso_date, t)

normalize_dates(t) == Then(Then(t, SpellUsDates), SpellIsoDates)

(***************************************************************************)
(* Rule 7: normalize_symbols                                               *)
(***************************************************************************)

currency_names ==
    << <<"$", "dollars">>, <<"U+20AC", "euros">>, <<"U+00A3", "pounds">>, <<"U+00A5", "yen">> >>

CurrencySymbols == {currency_names[n][1] : n \in 1..Len(currency_names)}

\* the position after (?:\.\d{2})? at position e: the group is taken when it is there
CentsEnd(s, e) ==
    IF At(s, e, <<".">>) /\ DigitsAt(s, e + 1, 2, 2) > 0 THEN e + 3 ELSE e

\* ([$€£¥])(\d+(?:\.\d{2})?)
Currency(s, i) ==
    IF i < Len(s) /\ s[i] \in CurrencySymbols /\ s[i + 1] \in Digits
    THEN CentsEnd(s, Span(s, i + 1, Digits))
    ELSE 0

replace_currency(s, i, e) ==
    LET symbol == s[i]
        amount == Slice(s, i + 1, e)
        currency ==
            Chars(currency_names[CHOOSE n \in 1..Len(currency_names) :
                                     currency_names[n][1] = symbol][2])
        dot == Find(amount, 1, {"."})
        whole_num == ParseInt(SubSeq(amount, 1, dot - 1))
        cents_num == ParseInt(From(amount, dot + 1))
        cents_word ==
            IF symbol \in {"$", "U+20AC"} THEN Chars("cents")
            ELSE IF symbol = "U+00A3" THEN Chars("pence")
            ELSE <<>>
    IN  IF dot > 0
        THEN IF cents_num.limbs # <<>>
             THEN Strip(number_to_words(whole_num) \o <<" ">> \o currency \o Chars(" and ")
                        \o number_to_words(cents_num) \o <<" ">> \o cents_word)
             ELSE number_to_words(whole_num) \o <<" ">> \o currency
        ELSE number_to_words(ParseInt(amount)) \o <<" ">> \o currency

\* the position after \d+(?:\.\d+)? at position i, which holds a digit. Without
\* the fraction the next character would be the ".", so the fraction is taken
\* whenever it is there.
DecimalEnd(s, i) ==
    LET e == Span(s, i, Digits)
    IN  IF At(s, e, <<".">>) /\ e + 1 <= Len(s) /\ s[e + 1] \in Digits
        THEN Span(s, e + 1, Digits)
        ELSE e

\* (\d+(?:\.\d+)?)\s*%
Percent(s, i) ==
    IF i <= Len(s) /\ s[i] \in Digits
    THEN LET e == Span(s, DecimalEnd(s, i), SpaceChars)
         IN  IF At(s, e, <<"%">>) THEN e + 1 ELSE 0
    ELSE 0

\* ' '.join(_number_to_words(int(d)) for d in decimal)
DigitWord(c) == <<number_to_words(ParseInt(<<c>>))>>

replace_percent(s, i, e) ==
    LET num == Slice(s, i, DecimalEnd(s, i))
        dot == Find(num, 1, {"."})
    IN  IF dot > 0
        THEN number_to_words(ParseInt(SubSeq(num, 1, dot - 1))) \o Chars(" point ")
                 \o Join(FlatMap(DigitWord, From(num, dot + 1)), <<" ">>) \o Chars(" percent")
        ELSE number_to_words(ParseInt(num)) \o Chars(" percent")

\* AM|PM|am|pm|a\.m\.|p\.m\.
Periods == << "AM", "PM", "am", "pm", "a.m.", "p.m." >>

\* the period at position e, or <<>>
PeriodAt(s, e) ==
    IF \E n \in 1..Len(Periods) : At(s, e, Chars(Periods[n]))
    THEN Chars(Periods[CHOOSE n \in 1..Len(Periods) : At(s, e, Chars(Periods[n]))])
    ELSE <<>>

\* the positions after the hour, the minute and the whitespace of
\* (\d{1,2}):(\d{2})\s* at position i, or <<>>
TimeGroups(s, i) ==
    LET e1 == DigitsAt(s, i, 1, 2)
        e2 == IF e1 > 0 /\ At(s, e1, <<":">>) THEN DigitsAt(s, e1 + 1, 2, 2) ELSE 0
    IN  IF e2 > 0 THEN <<e1, e2, Span(s, e2, SpaceChars)>> ELSE <<>>

\* (\d{1,2}):(\d{2})\s*(AM|PM|am|pm|a\.m\.|p\.m\.)?
Time(s, i) ==
    LET g == TimeGroups(s, i)
    IN  IF g = <<>> THEN 0 ELSE g[3] + Len(PeriodAt(s, g[3]))

replace_time(s, i, e) ==
    LET g == TimeGroups(s, i)
        hour == ParseInt(Slice(s, i, g[1]))
        minute == ParseInt(Slice(s, g[1] + 1, g[2]))
        period == Replace(Lower(PeriodAt(s, g[3])), <<".">>, <<>>)
        time_str ==
            IF minute.limbs = <<>> THEN number_to_words(hour) \o Chars(" o'clock")
            ELSE IF SmallValue(minute) < 10
            THEN number_to_words(hour) \o Chars(" oh ") \o number_to_words(minute)
            ELSE number_to_words(hour) \o <<" ">> \o number_to_words(minute)
    IN  IF period # <<>> THEN time_str \o <<" ", period[1], " ", period[2]>> ELSE time_str

\* (?<=[a-zA-Z])\+(?=[a-zA-Z])
PlusBetweenLetters(s, i) ==
    IF /\ i > 1
       /\ i < Len(s)
       /\ s[i] = "+"
       /\ s[i - 1] \in AsciiLetters
       /\ s[i + 1] \in AsciiLetters
    THEN i + 1 ELSE 0

\* \s\+\s
SpacedPlus(s, i) ==
    IF /\ i + 2 <= Len(s)
       /\ s[i] \in SpaceChars
       /\ s[i + 1] = "+"
       /\ s[i + 2] \in SpaceChars
    THEN i + 3 ELSE 0

Plus(s, i, e) == Chars(" plus ")

\* the statements of normalize_symbols
SpellCurrency(t) == ReSub(Currency, replace_currency, t)

SpellPercent(t) == ReSub(Percent, replace_percent, t)

SpellTime(t) == ReSub(Time, replace_time, t)

SpellSpacedAmpersand(t) == Replace(t, Chars(" & "), Chars(" and "))

\* a normalize_symbols that leaves "&" in place
KeepAmpersand(t) == t

SpellAmpersand(t) == Replace(t, <<"&">>, Chars(" and "))

SpellPlusBetweenLetters(t) == ReSub(PlusBetweenLetters, Plus, t)

SpellSpacedPlus(t) == ReSub(SpacedPlus, Plus, t)

SpellEquals(t) == Replace(t, Chars(" = "), Chars(" equals "))

SpellAt(t) == Replace(t, <<"@">>, Chars(" at "))

SpellHash(t) == Replace(t, <<"#">>, Chars(" number "))

SpellSlash(t) == Replace(t, Chars(" / "), Chars(" slash "))

normalize_symbols(t) ==
    Then(Then(Then(Then(Then(Then(Then(Then(Then(Then(Then(t,
        SpellCurrency), SpellPercent), SpellTime), SpellSpacedAmpersand), SpellAmpersand),
        SpellPlusBetweenLetters), SpellSpacedPlus), SpellEquals), SpellAt), SpellHash),
        SpellSlash)

(***************************************************************************)
(* Rule 8: normalize_acronyms                                              *)
(***************************************************************************)

\* the set literal of the source without its repeated members, as listed
LETTER_ACRONYMS ==
    << "FBI", "CIA", "NSA", "USA", "UK", "EU", "UN", "NATO", "CEO", "CFO", "CTO",
       "AI", "ML", "API", "CPU", "GPU", "RAM", "ROM", "USB", "HTML", "CSS", "URL",
       "PDF", "FAQ", "DIY", "VP", "HR", "IT", "PR", "QA", "R&D", "ROI",
       "GDP", "GPA", "IQ", "EQ", "PhD", "MBA", "BA", "BS", "MS", "MD", "JD",
       "ASAP", "FYI", "BTW", "IMO", "TBD", "TBA", "ETA", "RSVP",
       "GPS", "ATM", "PIN", "ID", "VIP", "PS", "TV", "DVD", "CD",
       "LLM", "NLP", "GPT", "CNN", "RNN", "SaaS", "IoT", "VR", "AR" >>

EXPANDED_ACRONYMS ==
    << <<"etc", "et cetera">>, <<"vs", "versus">>, <<"ie", "that is">>, <<"i.e", "that is">>,
       <<"eg", "for example">>, <<"e.g", "for example">>, <<"approx", "approximately">>,
       <<"govt", "government">>, <<"dept", "department">>, <<"inc", "incorporated">>,
       <<"corp", "corporation">>, <<"ltd", "limited">>, <<"assn", "association">>,
       <<"intl", "international">> >>

\* \b<word> with re.IGNORECASE: the position after the word, or 0
WordAt(word, s, i) ==
    LET e == i + Len(word)
    IN  IF e - 1 <= Len(s) /\ Lower(SubSeq(s, i, e - 1)) = Lower(word) /\ Boundary(s, i)
        THEN e ELSE 0

\* \b<word>\. with re.IGNORECASE
WordDot(word, s, i) ==
    LET e == WordAt(word, s, i) IN IF e > 0 /\ At(s, e, <<".">>) THEN e + 1 ELSE 0

\* \b<word>\b with re.IGNORECASE
WholeWord(word, s, i) ==
    LET e == WordAt(word, s, i) IN IF e > 0 /\ Boundary(s, e) THEN e ELSE 0

\* the two substitutions of one abbreviation
Expand(t, abbrev, expansion) ==
    Then(ReSub(LAMBDA s, i : WordDot(abbrev, s, i), LAMBDA s, i, e : expansion, t),
         LAMBDA v : ReSub(LAMBDA s, i : WholeWord(abbrev, s, i), LAMBDA s, i, e : expansion, v))

\* "for abbrev, expansion in EXPANDED_ACRONYMS.items()", entries lo..hi
RECURSIVE ExpandRange(_, _, _)
ExpandRange(t, lo, hi) ==
    IF lo = hi
    THEN Expand(t, Chars(EXPANDED_ACRONYMS[lo][1]), Chars(EXPANDED_ACRONYMS[lo][2]))
    ELSE LET mid == (lo + hi) \div 2
         IN  Then(ExpandRange(t, lo, mid), LAMBDA v : ExpandRange(v, mid + 1, hi))

\* a normalize_acronyms without the expansion table
KeepAbbreviations(t) == t

ExpandAbbreviations(t) == ExpandRange(t, 1, Len(EXPANDED_ACRONYMS))

\* ' '.join(acronym.upper())
Spaced(acronym) == Join([n \in 1..Len(acronym) |-> <<UpperChar(acronym[n])>>], <<" ">>)

\* "for acronym in LETTER_ACRONYMS", members lo..hi of the order
RECURSIVE SpellRange(_, _, _, _)
SpellRange(t, order, lo, hi) ==
    IF lo = hi
    THEN ReSub(LAMBDA s, i : WholeWord(Chars(order[lo]), s, i),
               LAMBDA s, i, e : Spaced(Chars(order[lo])), t)
    ELSE LET mid == (lo + hi) \div 2
         IN  Then(SpellRange(t, order, lo, mid), LAMBDA v : SpellRange(v, order, mid + 1, hi))

\* LETTER_ACRONYMS is a set, whose iteration order Python does not fix. The
\* words of two members made of letters never overlap, so those commute; "R&D"
\* alone can meet another member's letters: those of a member that ends in R
\* before it ("AR&D") or starts with D after it ("R&DVD").  So the orders that
\* matter are told apart by which of these members come before "R&D".
Without(order, a) == SelectSeq(order, LAMBDA x : x # a)

Neighbours ==
    {a \in Range(Without(LETTER_ACRONYMS, "R&D")) :
        Upper(Chars(a))[Len(a)] = "R" \/ Upper(Chars(a))[1] = "D"}

\* the order in which the members of before come first, "R&D" next
OrderWith(before) ==
    SelectSeq(LETTER_ACRONYMS, LAMBDA x : x \in before)
        \o <<"R&D">>
        \o SelectSeq(LETTER_ACRONYMS, LAMBDA x : x \notin before /\ x # "R&D")

AcronymOrders == {OrderWith(before) : before \in SUBSET Neighbours}

\* whether the letters of a are in t, in either case
Occurs(a, t) ==
    \E i \in 1..(Len(t) - Len(a) + 1) : Upper(SubSeq(t, i, i + Len(a) - 1)) = Upper(Chars(a))

\* the orders that can differ in their result for t. The replacements bring
\* letters apart and nothing together, so "R&D" matches nowhere, at no time, in
\* a text without "&", and a member matches nowhere in a text without its letters.
OrdersFor(t) ==
    IF "&" \in Range(t)
    THEN {OrderWith(before) : before \in SUBSET {a \in Neighbours : Occurs(a, t)}}
    ELSE {LETTER_ACRONYMS}

normalize_acronyms(t, order) ==
    Then(ExpandAbbreviations(t), LAMBDA v : SpellRange(v, order, 1, Len(order)))

(***************************************************************************)
(* Rule 9: flatten_lists and _list_to_prose                                *)
(***************************************************************************)

Bullets == {"-", "*", "U+2022"}

\* the item of \s+(.+)$ at position i of the line, or <<>>: the whitespace
\* gives its last character back to the item when nothing else follows
ItemAfter(line, i) ==
    LET e == Span(line, i, SpaceChars)
    IN  IF e = i THEN <<>>
        ELSE IF e <= Len(line) THEN From(line, e)
        ELSE IF e - i >= 2 THEN From(line, e - 1)
        ELSE <<>>

\* group 1 of re.match(r'^[\s]*[-*•]\s+(.+)$', line), or <<>>
list_match(line) ==
    LET b == Span(line, 1, SpaceChars)
    IN  IF b <= Len(line) /\ line[b] \in Bullets THEN ItemAfter(line, b + 1) ELSE <<>>

\* group 1 of re.match(r'^[\s]*\d+[.)]\s+(.+)$', line), or <<>>
numbered_match(line) ==
    LET b == Span(line, 1, SpaceChars)
        e == Span(line, b, Digits)
    IN  IF e > b /\ e <= Len(line) /\ line[e] \in {".", ")"}
        THEN ItemAfter(line, e + 1) ELSE <<>>

\* a list of ordinals that ends with the ninth
NineOrdinals ==
    << "Firstly", "Secondly", "Thirdly", "Fourthly", "Fifthly",
       "Sixthly", "Seventhly", "Eighthly", "Ninthly" >>

ordinals ==
    << "Firstly", "Secondly", "Thirdly", "Fourthly", "Fifthly",
       "Sixthly", "Seventhly", "Eighthly", "Ninthly", "Tenthly" >>

\* item.lower() if item[0].isupper() and not item[1:2].isupper() else item
Decapitalized(item) ==
    IF item[1] \in UpperSet /\ ~(Len(item) >= 2 /\ item[2] \in UpperSet)
    THEN Lower(item) ELSE item

list_to_prose(items) ==
    IF Len(items) = 1 THEN items[1]
    ELSE Join([n \in 1..Len(items) |->
                  (IF n <= Len(ordinals) THEN Chars(ordinals[n]) ELSE Chars("Additionally"))
                      \o <<",", " ">> \o Decapitalized(items[n])],
              <<" ">>)

\* a pass that emits the pending items and keeps them
KeepItems(st, line) ==
    LET item == IF list_match(line) # <<>> THEN list_match(line) ELSE numbered_match(line)
    IN  IF item # <<>>
        THEN [st EXCEPT !.in_list = TRUE, !.list_items = Append(@, item)]
        ELSE IF st.in_list /\ st.list_items # <<>>
        THEN [result |-> st.result \o <<list_to_prose(st.list_items), line>>,
              list_items |-> st.list_items, in_list |-> FALSE]
        ELSE [st EXCEPT !.result = Append(@, line)]

\* one pass of "for line in lines", from the state st of result, list_items, in_list
FlattenLine(st, line) ==
    LET item == IF list_match(line) # <<>> THEN list_match(line) ELSE numbered_match(line)
    IN  IF item # <<>>
        THEN [st EXCEPT !.in_list = TRUE, !.list_items = Append(@, item)]
        ELSE IF st.in_list /\ st.list_items # <<>>
        THEN [result |-> st.result \o <<list_to_prose(st.list_items), line>>,
              list_items |-> <<>>, in_list |-> FALSE]
        ELSE [st EXCEPT !.result = Append(@, line)]

\* the state after the first n lines
RECURSIVE FlattenLoop(_, _)
FlattenLoop(split, n) ==
    IF n = 0 THEN [result |-> <<>>, list_items |-> <<>>, in_list |-> FALSE]
    ELSE Then(FlattenLoop(split, n - 1), LAMBDA st : FlattenLine(st, split[n]))

flatten_lists(t) ==
    LET split == SplitLines(t)
        st == FlattenLoop(split, Len(split))
    IN  Join(IF st.list_items # <<>>
             THEN Append(st.result, list_to_prose(st.list_items))
             ELSE st.result,
             <<"\n">>)

(***************************************************************************)
(* Rule 10: chunk_text                                                     *)
(***************************************************************************)

\* the default of max_chars and of chunk_size
DefaultMaxChars == 900

SentenceEnd == {".", "!", "?"}

\* (?<=[.!?])\s+
SentenceBreak(s, i) ==
    IF i > 1 /\ s[i - 1] \in SentenceEnd /\ s[i] \in SpaceChars
    THEN Span(s, i, SpaceChars)
    ELSE 0

\* re.split(r'(?<=[.!?])\s+', text)
SplitSentences(t) == ReSplit(SentenceBreak, t)

\* chunk_text(t, m): the statements before the for loop
ChunkTextEnter(t, m) ==
    /\ text' = t
    /\ max_chars' = m
    /\ sentences' = SplitSentences(t)
    /\ k' = 1
    /\ chunks' = <<>>
    /\ current_chunk' = <<>>
    /\ current_length' = 0
    /\ origin' = <<>>
    /\ pc' = "loop"

\* the loop variable of "for sentence in sentences", after sentence.strip()
Sentence == Strip(sentences[k])

InLoop == pc = "loop" /\ k <= Len(sentences)

\* a join that forgets the separator
FlushedUnspaced == Join(current_chunk, <<>>)

\* ' '.join(current_chunk)
Flushed == Join(current_chunk, <<" ">>)

\* an empty sentence that is left to join the pending chunk
KeepEmpty ==
    /\ InLoop
    /\ Sentence = <<>>
    /\ current_chunk' = Append(current_chunk, Sentence)
    /\ k' = k + 1
    /\ UNCHANGED <<pc, text, chunk_size, callVars, threadVars, listVars, dirVars, max_chars,
                   sentences, chunks, current_length, origin>>

\* "if not sentence: continue"
SkipEmpty ==
    /\ InLoop
    /\ Sentence = <<>>
    /\ k' = k + 1
    /\ UNCHANGED <<pc, text, chunk_size, callVars, threadVars, listVars, dirVars, max_chars,
                   sentences, chunks, current_chunk, current_length, origin>>

\* an oversized sentence that is left to join the pending chunk
OversizedPending ==
    /\ InLoop
    /\ Sentence # <<>>
    /\ Len(Sentence) > max_chars
    /\ current_chunk' = Append(current_chunk, Sentence)
    /\ current_length' = current_length + Len(Sentence)
    /\ k' = k + 1
    /\ UNCHANGED <<pc, text, chunk_size, callVars, threadVars, listVars, dirVars, max_chars,
                   sentences, chunks, origin>>

\* "if sentence_len > max_chars": flush the pending chunk, emit the sentence as is
Oversized ==
    /\ InLoop
    /\ Sentence # <<>>
    /\ Len(Sentence) > max_chars
    /\ IF current_chunk # <<>>
       THEN /\ chunks' = chunks \o <<Flushed, Sentence>>
            /\ origin' = origin \o <<current_chunk, <<Sentence>>>>
            /\ current_length' = 0
       ELSE /\ chunks' = Append(chunks, Sentence)
            /\ origin' = Append(origin, <<Sentence>>)
            /\ current_length' = current_length
    /\ current_chunk' = <<>>
    /\ k' = k + 1
    /\ UNCHANGED <<pc, text, chunk_size, callVars, threadVars, listVars, dirVars, max_chars,
                   sentences>>

\* a length check that forgets the joining space
NoSpaceNeeded == IF current_chunk # <<>> THEN 0 ELSE 0

\* "space_needed = 1 if current_chunk else 0"
SpaceNeeded == IF current_chunk # <<>> THEN 1 ELSE 0

\* "if current_length + space_needed + sentence_len > max_chars": flush, start anew
Overflow ==
    /\ InLoop
    /\ Sentence # <<>>
    /\ Len(Sentence) <= max_chars
    /\ current_length + SpaceNeeded + Len(Sentence) > max_chars
    /\ IF current_chunk # <<>>
       THEN chunks' = Append(chunks, Flushed) /\ origin' = Append(origin, current_chunk)
       ELSE chunks' = chunks /\ origin' = origin
    /\ current_chunk' = <<Sentence>>
    /\ current_length' = Len(Sentence)
    /\ k' = k + 1
    /\ UNCHANGED <<pc, text, chunk_size, callVars, threadVars, listVars, dirVars, max_chars,
                   sentences>>

\* a sentence that joins the pending chunk with its joining space not counted
AppendUncounted ==
    /\ InLoop
    /\ Sentence # <<>>
    /\ Len(Sentence) <= max_chars
    /\ current_length + SpaceNeeded + Len(Sentence) <= max_chars
    /\ current_chunk' = Append(current_chunk, Sentence)
    /\ current_length' = current_length + Len(Sentence)
    /\ k' = k + 1
    /\ UNCHANGED <<pc, text, chunk_size, callVars, threadVars, listVars, dirVars, max_chars,
                   sentences, chunks, origin>>

\* "else": the sentence joins the pending chunk
AppendSentence ==
    /\ InLoop
    /\ Sentence # <<>>
    /\ Len(Sentence) <= max_chars
    /\ current_length + SpaceNeeded + Len(Sentence) <= max_chars
    /\ current_chunk' = Append(current_chunk, Sentence)
    /\ current_length' = current_length + SpaceNeeded + Len(Sentence)
    /\ k' = k + 1
    /\ UNCHANGED <<pc, text, chunk_size, callVars, threadVars, listVars, dirVars, max_chars,
                   sentences, chunks, origin>>

\* after the loop: "if current_chunk: chunks.append(...)", "return chunks"
ReturnChunks ==
    /\ pc = "loop"
    /\ k > Len(sentences)
    /\ IF current_chunk # <<>>
       THEN chunks' = Append(chunks, Flushed) /\ origin' = Append(origin, current_chunk)
       ELSE chunks' = chunks /\ origin' = origin
    /\ pc' = "done"
    /\ UNCHANGED <<text, chunk_size, callVars, threadVars, listVars, dirVars, max_chars,
                   sentences, k, current_chunk, current_length>>

(***************************************************************************)
(* SpeechTextConverter                                                     *)
(***************************************************************************)

\* the exception a call that returned t raised
ErrorOf(t) == LET m == CHOOSE e \in ErrorMarks : e \in Range(t) IN SubSeq(m, 2, Len(m))

\* "text = name(text)", where the call returned out: the result replaces text
\* and the program goes on at next, or the exception ends it
Assign(name, out, next) ==
    IF Raised(out)
    THEN /\ pc' = "raised"
         /\ error' = ErrorOf(out)
         /\ UNCHANGED <<text, stage, trace>>
    ELSE /\ pc' = next
         /\ text' = out
         /\ stage' = stage + 1
         /\ trace' = Append(trace, [name |-> name, input |-> text, output |-> out])
         /\ error' = error

\* the n-th statement of the body of convert
Statement(n, name, out) ==
    /\ pc = "convert"
    /\ stage = n - 1
    /\ \E value \in {out} : Assign(name, value, "convert")
    /\ UNCHANGED <<chunk_size, caller, outputs, chunkVars, threadVars, listVars, dirVars>>

\* the statements of convert
ConvertStripHtml == Statement(1, "strip_html", strip_html(text))

ConvertStripMarkdown == Statement(2, "strip_markdown", strip_markdown(text))

ConvertWhitespace == Statement(3, "normalize_whitespace", normalize_whitespace(text))

ConvertPunctuation ==
    Statement(4, "remove_dangerous_punctuation", remove_dangerous_punctuation(text))

ConvertControl == Statement(5, "strip_control_characters", strip_control_characters(text))

ConvertEmojis == Statement(6, "remove_emojis", remove_emojis(text))

ConvertUnicode == Statement(7, "replace_special_unicode", replace_special_unicode(text))

\* a body of convert that spells the symbols where it should spell the dates
ConvertSymbolsEarly == Statement(8, "normalize_symbols", normalize_symbols(text))

ConvertDates == Statement(8, "normalize_dates", normalize_dates(text))

ConvertSymbols == Statement(9, "normalize_symbols", normalize_symbols(text))

ConvertNumbers == Statement(10, "normalize_numbers", normalize_numbers(text))

ConvertAcronyms ==
    \E order \in OrdersFor(text) :
        Statement(11, "normalize_acronyms", normalize_acronyms(text, order))

ConvertLists == Statement(12, "flatten_lists", flatten_lists(text))

ConvertFinalWhitespace == Statement(13, "normalize_whitespace", normalize_whitespace(text))

\* the number of statements before "return text"
ConvertStatements == 13

ConvertBody ==
    \/ ConvertStripHtml
    \/ ConvertStripMarkdown
    \/ ConvertWhitespace
    \/ ConvertPunctuation
    \/ ConvertControl
    \/ ConvertEmojis
    \/ ConvertUnicode
    \/ ConvertDates
    \/ ConvertSymbols
    \/ ConvertNumbers
    \/ ConvertAcronyms
    \/ ConvertLists
    \/ ConvertFinalWhitespace

\* SpeechTextConverter(c): __init__ stores c
Init__(c) ==
    /\ pc = "start"
    /\ pc' = "ready"
    /\ chunk_size' = c
    /\ UNCHANGED <<text, callVars, chunkVars, threadVars, listVars, dirVars>>

\* entry of convert(t), called as who
ConvertEnter(t, who) ==
    /\ pc' = "convert"
    /\ text' = t
    /\ caller' = who
    /\ stage' = 0
    /\ trace' = <<>>
    /\ UNCHANGED <<chunk_size, outputs, error, chunkVars>>

\* "return text" of convert, to a caller of convert
ConvertReturn ==
    /\ pc = "convert"
    /\ stage = ConvertStatements
    /\ caller = "convert"
    /\ pc' = "converted"
    /\ outputs' = Append(outputs, text)
    /\ UNCHANGED <<text, chunk_size, caller, stage, trace, error, chunkVars, threadVars,
                   listVars, dirVars>>

\* convert_and_chunk after "text = self.convert(text)":
\* "return chunk_text(text, self.chunk_size)"
ChunkConverted ==
    /\ pc = "convert"
    /\ stage = ConvertStatements
    /\ caller = "convert_and_chunk"
    /\ ChunkTextEnter(text, chunk_size)
    /\ UNCHANGED <<chunk_size, callVars, threadVars, listVars, dirVars>>

\* the state before any call
Start ==
    /\ pc = "start"
    /\ text = <<>>
    /\ chunk_size = DefaultMaxChars
    /\ caller = "none"
    /\ stage = 0
    /\ trace = <<>>
    /\ outputs = <<>>
    /\ error = "none"
    /\ max_chars = DefaultMaxChars
    /\ sentences = <<>>
    /\ k = 1
    /\ chunks = <<>>
    /\ current_chunk = <<>>
    /\ current_length = 0
    /\ origin = <<>>
    /\ thread = 1
    /\ frames = <<>>
    /\ lines = <<>>
    /\ line_no = 1
    /\ result = <<>>
    /\ list_items = <<>>
    /\ in_list = FALSE
    /\ input_dir = <<>>
    /\ output_dir = <<>>
    /\ articles = <<>>
    /\ article_no = 1
    /\ converted = 0
    /\ skipped = 0

\* a program that has the text t, and will call a stage function on it
Given(t) ==
    /\ pc = "start"
    /\ pc' = "given"
    /\ text' = t
    /\ UNCHANGED <<chunk_size, callVars, chunkVars, threadVars, listVars, dirVars>>

\* the n-th call of a program that calls stage functions on its text in a row
Call(n, name, out) ==
    /\ pc = IF n = 1 THEN "given" ELSE "returned"
    /\ stage = n - 1
    /\ \E value \in {out} : Assign(name, value, "returned")
    /\ UNCHANGED <<chunk_size, caller, outputs, chunkVars, threadVars, listVars, dirVars>>

\* The threads of a program that calls convert from several threads.  The
\* interpreter runs one thread at a time and can switch between two statements:
\* pc, text, stage and trace are the running thread's, frames holds those of
\* the others.  The rule tables and chunk_size are the only objects the
\* threads share.

\* the frame of the running thread
Frame == [pc |-> pc, text |-> text, stage |-> stage, trace |-> trace]

\* the place of the running thread in frames
Running == [pc |-> "running", text |-> <<>>, stage |-> 0, trace |-> <<>>]

\* two threads call convert, on t1 and on t2; the first one is running
ConvertConcurrently(t1, t2) ==
    /\ pc = "ready"
    /\ ConvertEnter(t1, "convert")
    /\ thread' = 1
    /\ frames' = <<Running, [pc |-> "convert", text |-> t2, stage |-> 0, trace |-> <<>>]>>
    /\ UNCHANGED <<listVars, dirVars>>

\* the interpreter suspends the running thread and resumes thread th
Switch(th) ==
    /\ pc \in {"convert", "converted", "raised"}
    /\ th \in DOMAIN frames
    /\ th # thread
    /\ frames[th].pc = "convert"
    /\ pc' = frames[th].pc
    /\ text' = frames[th].text
    /\ stage' = frames[th].stage
    /\ trace' = frames[th].trace
    /\ thread' = th
    /\ frames' = [frames EXCEPT ![thread] = Frame, ![th] = Running]
    /\ UNCHANGED <<chunk_size, caller, outputs, error, chunkVars, listVars, dirVars>>

\* all texts of at most n characters of the alphabet
RECURSIVE TextsUpTo(_, _)
TextsUpTo(alphabet, n) ==
    IF n = 0 THEN {<<>>}
    ELSE LET shorter == TextsUpTo(alphabet, n - 1)
         IN  shorter \cup {Append(t, c) : t \in {u \in shorter : Len(u) = n - 1}, c \in alphabet}

\* all texts made of at most n of the fragments
RECURSIVE FragmentsUpTo(_, _)
FragmentsUpTo(fragments, n) ==
    IF n = 0 THEN {<<>>}
    ELSE LET shorter == FragmentsUpTo(fragments, n - 1)
         IN  shorter \cup {t \o Chars(f) : t \in shorter, f \in fragments}

(***************************************************************************)
(* The chunker's specification: chunk_text called on a text, and           *)
(* convert_and_chunk called on a converter of any chunk size.              *)
(***************************************************************************)

\* the longest text given to chunk_text
MaxChunkText == 8

\* the longest text given to convert_and_chunk
MaxConvertedText == 4

\* the largest limit tried beside the default
MaxChars == 4

ChunkAlphabet == {"a", ".", " "}

\* the values of max_chars and of chunk_size
MaxCharsArgs == (-1 .. MaxChars) \cup {DefaultMaxChars}

\* a program that calls chunk_text(t, m)
CallChunkText ==
    /\ pc = "start"
    /\ \E t \in TextsUpTo(ChunkAlphabet, MaxChunkText), m \in MaxCharsArgs :
           ChunkTextEnter(t, m)
    /\ caller' = "chunk_text"
    /\ UNCHANGED <<chunk_size, stage, trace, outputs, error, threadVars, listVars, dirVars>>

\* a program that builds SpeechTextConverter(c)
Construct == \E c \in MaxCharsArgs : Init__(c)

\* a program that calls convert_and_chunk(t)
CallConvertAndChunk ==
    /\ pc = "ready"
    /\ \E t \in TextsUpTo(ChunkAlphabet, MaxConvertedText) :
           ConvertEnter(t, "convert_and_chunk")
    /\ UNCHANGED <<threadVars, listVars, dirVars>>

NextChunk ==
    \/ CallChunkText
    \/ Construct
    \/ CallConvertAndChunk
    \/ ConvertBody
    \/ ChunkConverted
    \/ SkipEmpty
    \/ Oversized
    \/ Overflow
    \/ AppendSentence
    \/ ReturnChunks

SpecChunk == Start /\ [][NextChunk]_vars

(***************************************************************************)
(* The converter's specification: convert called on a default converter.   *)
(***************************************************************************)

\* the most fragments in a text given to convert
MaxFragments == 2

ConvertFragments ==
    {"a", " ", "[", "]", "{", "<", "&amp;", "1000000000000000", "&#1114112;"}

\* a program that builds SpeechTextConverter()
ConstructDefault == Init__(DefaultMaxChars)

\* a program that calls convert(t)
CallConvert ==
    /\ pc = "ready"
    /\ \E t \in FragmentsUpTo(ConvertFragments, MaxFragments) : ConvertEnter(t, "convert")
    /\ UNCHANGED <<threadVars, listVars, dirVars>>

NextConvert ==
    \/ ConstructDefault
    \/ CallConvert
    \/ ConvertBody
    \/ ConvertReturn

SpecConvert == Start /\ [][NextConvert]_vars

(***************************************************************************)
(* The specification of a second run: convert called on its own result.    *)
(***************************************************************************)

\* the most fragments in a text given to the first run
MaxAgainFragments == 3

AgainFragments == {"a", " ", "- ", "1", "FBI"}

\* a program that calls convert(t) first
CallConvertFirst ==
    /\ pc = "ready"
    /\ \E t \in FragmentsUpTo(AgainFragments, MaxAgainFragments) : ConvertEnter(t, "convert")
    /\ UNCHANGED <<threadVars, listVars, dirVars>>

\* the program calls convert on the text that convert returned
ConvertAgain ==
    /\ pc = "converted"
    /\ Len(outputs) = 1
    /\ ConvertEnter(text, "convert")
    /\ UNCHANGED <<threadVars, listVars, dirVars>>

NextAgain ==
    \/ ConstructDefault
    \/ CallConvertFirst
    \/ ConvertBody
    \/ ConvertReturn
    \/ ConvertAgain

SpecAgain == Start /\ [][NextAgain]_vars

(***************************************************************************)
(* The whitespace specification: normalize_whitespace called on a text,    *)
(* and once more on its result.                                            *)
(***************************************************************************)

\* the longest text given to normalize_whitespace
MaxWhitespaceText == 5

WhitespaceAlphabet == {"a", " ", "\t", "\n", "\r", "U+00A0"}

GiveWhitespaceText ==
    /\ pc = "start"
    /\ \E t \in TextsUpTo(WhitespaceAlphabet, MaxWhitespaceText) : Given(t)

NormalizeOnce == Call(1, "normalize_whitespace", normalize_whitespace(text))

NormalizeTwice == Call(2, "normalize_whitespace", normalize_whitespace(text))

NextWhitespace ==
    \/ GiveWhitespaceText
    \/ NormalizeOnce
    \/ NormalizeTwice

SpecWhitespace == Start /\ [][NextWhitespace]_vars

(***************************************************************************)
(* The markup specification: strip_html called on a text, then             *)
(* strip_markdown on its result, as convert does.                          *)
(***************************************************************************)

\* the most fragments in a text given to strip_html
MaxMarkupFragments == 3

MarkupFragments == {"a", "<", ">", "b>", "*", "&lt;", "&gt;", "&#62;"}

GiveMarkupText ==
    /\ pc = "start"
    /\ \E t \in FragmentsUpTo(MarkupFragments, MaxMarkupFragments) : Given(t)

StripHtmlFirst == Call(1, "strip_html", strip_html(text))

StripMarkdownNext == Call(2, "strip_markdown", strip_markdown(text))

NextMarkup ==
    \/ GiveMarkupText
    \/ StripHtmlFirst
    \/ StripMarkdownNext

SpecMarkup == Start /\ [][NextMarkup]_vars

(***************************************************************************)
(* The specification of concurrent calls: two threads call convert on one  *)
(* converter, and the interpreter switches between them at any statement.  *)
(***************************************************************************)

MaxThreadFragments == 1

ThreadFragments == {"AR&D", "&amp;DVD"}

CallConcurrently ==
    \E t1, t2 \in FragmentsUpTo(ThreadFragments, MaxThreadFragments) :
        ConvertConcurrently(t1, t2)

SwitchThread == \E th \in DOMAIN frames : Switch(th)

NextThreads ==
    \/ ConstructDefault
    \/ CallConcurrently
    \/ ConvertBody
    \/ ConvertReturn
    \/ SwitchThread

SpecThreads == Start /\ [][NextThreads]_vars

(***************************************************************************)
(* The specification of years: normalize_dates, then normalize_numbers,    *)
(* called on a number, alone or after a date whose year it is.             *)
(***************************************************************************)

MaxYearDigits == 4

YearDigits == {"0", "1", "2", "8", "9"}

YearTokens == TextsUpTo(YearDigits, MaxYearDigits) \ {<<>>}

\* a US date and an ISO date of the year y, each followed by y
UsDated(y) == Chars("1/2/") \o y \o <<" ">> \o y

IsoDated(y) == y \o Chars("-01-02 ") \o y

YearTexts ==
    YearTokens \cup {UsDated(y) : y \in {u \in YearTokens : Len(u) = 4}}
               \cup {IsoDated(y) : y \in {u \in YearTokens : Len(u) = 4}}

GiveYearText ==
    /\ pc = "start"
    /\ \E t \in YearTexts : Given(t)

YearDates == Call(1, "normalize_dates", normalize_dates(text))

YearNumbers == Call(2, "normalize_numbers", normalize_numbers(text))

NextYears ==
    \/ GiveYearText
    \/ YearDates
    \/ YearNumbers

SpecYears == Start /\ [][NextYears]_vars

(***************************************************************************)
(* The specification of dates: convert called on a date.                   *)
(***************************************************************************)

DateMonths == {"1", "01", "9", "12", "13", "00"}

DateDays == {"2", "02", "31"}

DateYears == {"2025", "1900"}

UsDates == {Chars(m) \o <<"/">> \o Chars(d) \o <<"/">> \o Chars(y) :
               m \in DateMonths, d \in DateDays, y \in DateYears}

IsoDates == {Chars(y) \o <<"-">> \o Chars(m) \o <<"-">> \o Chars(d) :
                m \in {u \in DateMonths : Len(u) = 2}, d \in {u \in DateDays : Len(u) = 2},
                y \in DateYears}

\* a program that calls convert(t) on a date
CallConvertDate ==
    /\ pc = "ready"
    /\ \E t \in UsDates \cup IsoDates : ConvertEnter(t, "convert")
    /\ UNCHANGED <<threadVars, listVars, dirVars>>

NextDates ==
    \/ ConstructDefault
    \/ CallConvertDate
    \/ ConvertBody
    \/ ConvertReturn

SpecDates == Start /\ [][NextDates]_vars

(***************************************************************************)
(* The specification of currency amounts: normalize_symbols called on an   *)
(* amount.                                                                 *)
(***************************************************************************)

AmountSymbols == {"$", "U+20AC", "U+00A3", "U+00A5"}

AmountWholes == {"0", "1", "07", "20", "1000"}

AmountFractions == {"", ".00", ".05", ".50", ".99"}

Amounts == {<<c>> \o Chars(w) \o Chars(f) :
               c \in AmountSymbols, w \in AmountWholes, f \in AmountFractions}

GiveAmount ==
    /\ pc = "start"
    /\ \E t \in Amounts : Given(t)

SpellAmount == Call(1, "normalize_symbols", normalize_symbols(text))

NextCurrency ==
    \/ GiveAmount
    \/ SpellAmount

SpecCurrency == Start /\ [][NextCurrency]_vars

(***************************************************************************)
(* The specification of percentages: normalize_symbols called on a number  *)
(* and a percent sign.                                                     *)
(***************************************************************************)

PercentPrefixes == {"", "$"}

PercentWholes == {"0", "42", "007"}

PercentFractions == {"", ".5", ".05", ".140"}

PercentGaps == {"", " ", "\n"}

Percentages == {Chars(p) \o Chars(w) \o Chars(f) \o Chars(g) \o <<"%">> :
                   p \in PercentPrefixes, w \in PercentWholes, f \in PercentFractions,
                   g \in PercentGaps}

GivePercentage ==
    /\ pc = "start"
    /\ \E t \in Percentages : Given(t)

SpellPercentage == Call(1, "normalize_symbols", normalize_symbols(text))

NextPercent ==
    \/ GivePercentage
    \/ SpellPercentage

SpecPercent == Start /\ [][NextPercent]_vars

(***************************************************************************)
(* The specification of clock times: normalize_symbols called on a time.   *)
(***************************************************************************)

TimeHours == {"0", "9", "09", "12"}

TimeMinutes == {"00", "05", "30"}

TimeGaps == {"", " "}

TimeMarkers == {"", "AM", "pm", "a.m.", "P.M."}

Times == {Chars(h) \o <<":">> \o Chars(m) \o Chars(g) \o Chars(p) :
             h \in TimeHours, m \in TimeMinutes, g \in TimeGaps, p \in TimeMarkers}

GiveTime ==
    /\ pc = "start"
    /\ \E t \in Times : Given(t)

SpellClockTime == Call(1, "normalize_symbols", normalize_symbols(text))

NextTime ==
    \/ GiveTime
    \/ SpellClockTime

SpecTime == Start /\ [][NextTime]_vars

(***************************************************************************)
(* The specification of acronyms: normalize_acronyms called on words with  *)
(* single spaces between them.                                             *)
(***************************************************************************)

MaxAcronymWords == 2

AcronymWords == {"etc.", "I.E.", "e.g", "Vs", "api", "PhD.", "R&D", "is", "CEOs"}

\* the texts of 1 to n of the words
RECURSIVE WordsUpTo(_)
WordsUpTo(n) ==
    IF n = 1 THEN {Chars(w) : w \in AcronymWords}
    ELSE WordsUpTo(n - 1)
             \cup {t \o <<" ">> \o Chars(w) :
                      t \in {u \in WordsUpTo(n - 1) : Len(SelectSeq(u, LAMBDA c : c = " ")) = n - 2},
                      w \in AcronymWords}

GiveWords ==
    /\ pc = "start"
    /\ \E t \in WordsUpTo(MaxAcronymWords) : Given(t)

SpellWords ==
    \E order \in OrdersFor(text) :
        Call(1, "normalize_acronyms", normalize_acronyms(text, order))

NextAcronyms ==
    \/ GiveWords
    \/ SpellWords

SpecAcronyms == Start /\ [][NextAcronyms]_vars

(***************************************************************************)
(* The specification of the word "it": normalize_acronyms called on texts  *)
(* of the word in each case, the possessive ending and the space.          *)
(***************************************************************************)

MaxPronounFragments == 3

PronounFragments == {"it", "IT", "It", "'s", " "}

GivePronoun ==
    /\ pc = "start"
    /\ \E t \in FragmentsUpTo(PronounFragments, MaxPronounFragments) : Given(t)

SpellPronoun ==
    \E order \in OrdersFor(text) :
        Call(1, "normalize_acronyms", normalize_acronyms(text, order))

NextPronoun ==
    \/ GivePronoun
    \/ SpellPronoun

SpecPronoun == Start /\ [][NextPronoun]_vars

(***************************************************************************)
(* The specification of lists: flatten_lists called on texts of blocks,    *)
(* each a run of list lines or a line that is none.                        *)
(***************************************************************************)

MaxListItems == 11

MaxListBlocks == 3

ListPrefixes ==
    << Chars("- "), Chars("* "), <<"U+2022", " ">>, Chars("1. "), Chars("12) "),
       Chars("  -\t") >>

ListItems == <<"a", "Bee c", "7.">>

\* the i-th line of a run
ListLine(i) ==
    ListPrefixes[((i - 1) % Len(ListPrefixes)) + 1]
        \o Chars(ListItems[((i - 1) % Len(ListItems)) + 1])

\* a run of n list lines
ListRun(n) == Join([i \in 1..n |-> ListLine(i)], <<"\n">>)

ListBlocks ==
    {ListRun(n) : n \in {1, 2, MaxListItems}} \cup {Chars("x"), <<>>, Chars("- ")}

\* the texts of 1 to n blocks, one to a line or more
RECURSIVE BlocksUpTo(_)
BlocksUpTo(n) ==
    IF n = 0 THEN {}
    ELSE ListBlocks \cup {t \o <<"\n">> \o b : t \in BlocksUpTo(n - 1), b \in ListBlocks}

GiveList ==
    /\ pc = "start"
    /\ \E t \in BlocksUpTo(MaxListBlocks) : Given(t)

FlattenList == Call(1, "flatten_lists", flatten_lists(text))

NextLists ==
    \/ GiveList
    \/ FlattenList

SpecLists == Start /\ [][NextLists]_vars

(***************************************************************************)
(* The specification of list blocks in convert: convert called on a block  *)
(* of list lines of one prefix kind, alone or after another line.          *)
(***************************************************************************)

PrefixKinds == {"dash", "asterisk", "bullet dot", "digit-dot", "digit-paren"}

BlockSizes == {2, 3}

BlockItems == <<"a", "b", "c">>

BlockIndexes == <<"1", "2", "3">>

\* the prefix of the i-th line of a block of a kind
KindPrefix(kind, i) ==
    CASE kind = "dash" -> Chars("- ")
      [] kind = "asterisk" -> Chars("* ")
      [] kind = "bullet dot" -> <<"U+2022", " ">>
      [] kind = "digit-dot" -> <<BlockIndexes[i]>> \o Chars(". ")
      [] kind = "digit-paren" -> <<BlockIndexes[i]>> \o Chars(") ")

\* the block of n list lines of a kind
Block(kind, n) ==
    Join([i \in 1..n |-> KindPrefix(kind, i) \o Chars(BlockItems[i])], <<"\n">>)

Blocks ==
    {before \o Block(kind, n) :
        before \in {<<>>, Chars("x\n")}, kind \in PrefixKinds, n \in BlockSizes}

\* a program that calls convert(t) on a block
CallConvertBlock ==
    /\ pc = "ready"
    /\ \E t \in Blocks : ConvertEnter(t, "convert")
    /\ UNCHANGED <<threadVars, listVars, dirVars>>

NextBlocks ==
    \/ ConstructDefault
    \/ CallConvertBlock
    \/ ConvertBody
    \/ ConvertReturn

SpecBlocks == Start /\ [][NextBlocks]_vars

(***************************************************************************)
(* The specification of number words: _number_to_words called on an        *)
(* integer, which the text holds as its decimal literal.                   *)
(***************************************************************************)

MaxSmallInteger == 1100

\* the 3-digit groups of the larger integers
GroupSamples == {"000", "001", "021", "100", "999"}

DigitSeq == <<"0", "1", "2", "3", "4", "5", "6", "7", "8", "9">>

\* the decimal literal of v >= 0
RECURSIVE Decimal(_)
Decimal(v) ==
    IF v < 10 THEN <<DigitSeq[v + 1]>> ELSE Decimal(v \div 10) \o <<DigitSeq[(v % 10) + 1]>>

\* the first group of the larger integers, which has no zero before it
FirstGroupSamples == {"1", "21", "100", "999"}

\* the literals of n groups
RECURSIVE GroupLiterals(_)
GroupLiterals(n) ==
    IF n = 1 THEN {Chars(g) : g \in FirstGroupSamples}
    ELSE {t \o Chars(g) : t \in GroupLiterals(n - 1), g \in GroupSamples}

\* the integers that have a scale word for each of their groups
Integers ==
    LET naturals == {Decimal(v) : v \in 0..MaxSmallInteger}
                        \cup UNION {GroupLiterals(n) : n \in 2..Len(SCALES)}
    IN  naturals \cup {<<"-">> \o t : t \in naturals \ {<<"0">>}}

GiveInteger ==
    /\ pc = "start"
    /\ \E t \in Integers : Given(t)

\* int(t) for a decimal literal with or without a sign
SignedInt(t) ==
    IF t[1] = "-" THEN [ParseInt(From(t, 2)) EXCEPT !.neg = TRUE] ELSE ParseInt(t)

SpellInteger == Call(1, "_number_to_words", number_to_words(SignedInt(text)))

NextIntegers ==
    \/ GiveInteger
    \/ SpellInteger

SpecIntegers == Start /\ [][NextIntegers]_vars

(***************************************************************************)
(* The specification of numbers: normalize_numbers called on texts of      *)
(* ordinal tokens, digit runs and what parts them.                         *)
(***************************************************************************)

MaxNumberFragments == 2

NumberFragments ==
    {"1st", "21ST", "3rd", "12th", "32nd", "7", "007", "1999", "999999999999999",
     "1000000000000000", " ", "a", "."}

GiveNumbers ==
    /\ pc = "start"
    /\ \E t \in FragmentsUpTo(NumberFragments, MaxNumberFragments) : Given(t)

SpellNumberText == Call(1, "normalize_numbers", normalize_numbers(text))

NextNumbers ==
    \/ GiveNumbers
    \/ SpellNumberText

SpecNumbers == Start /\ [][NextNumbers]_vars

(***************************************************************************)
(* The specification of months: normalize_dates called on a date whose     *)
(* month is in the table or not.                                           *)
(***************************************************************************)

MonthDigits == {"0", "00", "13", "99", "12", "1", "7"}

DayDigits == {"1", "01", "31", "00"}

YearsOfDates == {"2025", "0999", "1900"}

DatesOfMonths ==
    {Chars(m) \o <<"/">> \o Chars(d) \o <<"/">> \o Chars(y) :
        m \in MonthDigits, d \in DayDigits, y \in YearsOfDates}
    \cup {Chars(y) \o <<"-">> \o Chars(m) \o <<"-">> \o Chars(d) :
        m \in {u \in MonthDigits : Len(u) = 2}, d \in {u \in DayDigits : Len(u) = 2},
        y \in YearsOfDates}

GiveDate ==
    /\ pc = "start"
    /\ \E t \in DatesOfMonths : Given(t)

SpellDate == Call(1, "normalize_dates", normalize_dates(text))

NextMonths ==
    \/ GiveDate
    \/ SpellDate

SpecMonths == Start /\ [][NextMonths]_vars

(***************************************************************************)
(* The specification of list items: _list_to_prose called on the lines of  *)
(* the text as its items.                                                  *)
(***************************************************************************)

MaxItems == 3

ItemSamples == {"Buy IBM", "AI rocks", "a B", "Ab", "A", "x"}

\* the texts of 1 to n items, one to a line
RECURSIVE ItemsUpTo(_)
ItemsUpTo(n) ==
    IF n = 1 THEN {Chars(w) : w \in ItemSamples}
    ELSE ItemsUpTo(n - 1)
             \cup {t \o <<"\n">> \o Chars(w) :
                      t \in {u \in ItemsUpTo(n - 1) : Len(SplitLines(u)) = n - 1},
                      w \in ItemSamples}

GiveItems ==
    /\ pc = "start"
    /\ \E t \in ItemsUpTo(MaxItems) : Given(t)

\* text = _list_to_prose(text.split('\n'))
ItemsToProse == Call(1, "_list_to_prose", list_to_prose(SplitLines(text)))

NextItems ==
    \/ GiveItems
    \/ ItemsToProse

SpecItems == Start /\ [][NextItems]_vars

(***************************************************************************)
(* The specification of the loop of flatten_lists: the function called on  *)
(* texts of blocks, one pass of its loop at a time.                        *)
(***************************************************************************)

\* text.split('\n') and the three assignments before the loop
CallFlattenLists ==
    /\ pc = "given"
    /\ pc' = "lines"
    /\ lines' = SplitLines(text)
    /\ line_no' = 1
    /\ result' = <<>>
    /\ list_items' = <<>>
    /\ in_list' = FALSE
    /\ UNCHANGED <<text, chunk_size, callVars, chunkVars, threadVars, dirVars>>

\* one pass of the loop, for a line that is a list item or for one that is none
FlattenPass(listed) ==
    /\ pc = "lines"
    /\ line_no <= Len(lines)
    /\ listed = (list_match(lines[line_no]) # <<>> \/ numbered_match(lines[line_no]) # <<>>)
    /\ \E st \in {FlattenLine([result |-> result, list_items |-> list_items,
                                in_list |-> in_list], lines[line_no])} :
           /\ result' = st.result
           /\ list_items' = st.list_items
           /\ in_list' = st.in_list
    /\ line_no' = line_no + 1
    /\ UNCHANGED <<pc, text, lines, chunk_size, callVars, chunkVars, threadVars, dirVars>>

AppendItem == FlattenPass(TRUE)

AppendLine == FlattenPass(FALSE)

\* "if list_items: ..." after the loop, and the return
FlattenReturn ==
    /\ pc = "lines"
    /\ line_no > Len(lines)
    /\ result' = IF list_items # <<>> THEN Append(result, list_to_prose(list_items))
                 ELSE result
    /\ \E value \in {Join(result', <<"\n">>)} : Assign("flatten_lists", value, "returned")
    /\ UNCHANGED <<lines, line_no, list_items, in_list, chunk_size, caller, outputs,
                   chunkVars, threadVars, dirVars>>

NextFlatten ==
    \/ GiveList
    \/ CallFlattenLists
    \/ AppendItem
    \/ AppendLine
    \/ FlattenReturn

SpecFlatten == Start /\ [][NextFlatten]_vars

(***************************************************************************)
(* The specification of the hazard filter: its four passes called on a     *)
(* text, each once, in any order.                                          *)
(***************************************************************************)

MaxHazardText == 2

HazardAlphabet == {"a", "[", "]", "{", "U+00A0", "U+200B", "U+2713", "U+2192", "U+1F600"}

GiveHazardText ==
    /\ pc = "start"
    /\ \E t \in TextsUpTo(HazardAlphabet, MaxHazardText) : Given(t)

\* the call of a pass that has not been called yet
PassOnce(name, out) ==
    /\ \A i \in 1..Len(trace) : trace[i].name # name
    /\ Call(stage + 1, name, out)

PassPunctuation ==
    PassOnce("remove_dangerous_punctuation", remove_dangerous_punctuation(text))

PassControl == PassOnce("strip_control_characters", strip_control_characters(text))

PassEmojis == PassOnce("remove_emojis", remove_emojis(text))

PassUnicode == PassOnce("replace_special_unicode", replace_special_unicode(text))

NextHazard ==
    \/ GiveHazardText
    \/ PassPunctuation
    \/ PassControl
    \/ PassEmojis
    \/ PassUnicode

SpecHazard == Start /\ [][NextHazard]_vars

(***************************************************************************)
(* The specification of the text around a literal: normalize_symbols       *)
(* called on a time, an amount or a percentage with text around it.        *)
(***************************************************************************)

FrameBefores == {"", "at "}

FrameLiterals == {"9:30", "12:05", "$5", "$5.50", "5%", "2.5%"}

FrameAfters == {"", " x", "\nx", "\n\nx", "."}

GiveFramed ==
    /\ pc = "start"
    /\ \E b \in FrameBefores, l \in FrameLiterals, a \in FrameAfters :
           Given(Chars(b) \o Chars(l) \o Chars(a))

SpellFramed == Call(1, "normalize_symbols", normalize_symbols(text))

NextFramed ==
    \/ GiveFramed
    \/ SpellFramed

SpecFramed == Start /\ [][NextFramed]_vars

(***************************************************************************)
(* The claims about the chunker, checked under SpecChunk                   *)
(***************************************************************************)

\* the members of a list of texts that are not empty
NonEmpty(texts) == SelectSeq(texts, LAMBDA t : t # <<>>)

\* the lists of a list, concatenated
RECURSIVE Flatten(_)
Flatten(lists) == IF lists = <<>> THEN <<>> ELSE Head(lists) \o Flatten(Tail(lists))

\* chunk i is one sentence, longer than the limit
OversizedChunk(i) ==
    /\ Len(origin[i]) = 1
    /\ chunks[i] = origin[i][1]
    /\ Len(chunks[i]) > max_chars

C2_ChunksAreTheSentences ==
    pc = "done" =>
        Join(chunks, <<" ">>) = Join(NonEmpty(StripEach(SplitSentences(text))), <<" ">>)

\* a call has returned several chunks, one of several sentences, and has
\* skipped an empty sentence
C2_Witness ==
    /\ pc = "done"
    /\ Len(chunks) >= 2
    /\ \E i \in 1..Len(chunks) : Len(origin[i]) >= 2
    /\ \E j \in 1..Len(sentences) : Strip(sentences[j]) = <<>>

C4_NonPositiveLimitRejected == pc = "done" => max_chars >= 1

(***************************************************************************)
(* The claims about convert, checked under SpecConvert and SpecAgain       *)
(***************************************************************************)

\* C5 as stated: convert returns a string for every text, as does each of its
\* stages: no call raises.
C5_ConvertNeverRaises == pc # "raised"

\* the order of the stages that the specification gives
StatedOrder ==
    << "strip_html", "strip_markdown", "normalize_whitespace",
       "remove_dangerous_punctuation", "strip_control_characters", "remove_emojis",
       "replace_special_unicode", "normalize_dates", "normalize_symbols",
       "normalize_numbers", "normalize_acronyms", "flatten_lists",
       "normalize_whitespace" >>

\* C6: in every call of convert, the stages applied so far are the first ones
\* of the stated order, in that order; each was given the output of the one
\* before it, and text is the output of the last; a call that returns has
\* applied all thirteen and returns the output of the last.
C6_FixedStageOrder ==
    pc \in {"convert", "converted", "raised"} =>
        /\ Len(trace) = stage
        /\ stage <= Len(StatedOrder)
        /\ \A i \in 1..Len(trace) : trace[i].name = StatedOrder[i]
        /\ \A i \in 2..Len(trace) : trace[i].input = trace[i - 1].output
        /\ trace # <<>> => text = trace[Len(trace)].output
        /\ pc = "converted" =>
               /\ Len(trace) = Len(StatedOrder)
               /\ outputs[Len(outputs)] = trace[Len(trace)].output

\* whether stage i of the call changed the text
Fired(i) == trace[i].input # trace[i].output

\* a call has returned in which the first, the fourth and the ninth stage
\* each changed the text
C6_Witness ==
    /\ pc = "converted"
    /\ Fired(1)
    /\ Fired(4)
    /\ Fired(9)

Dangerous == {"{", "}", "<", ">", "[", "]"}

\* C7 as stated: no output of remove_dangerous_punctuation holds one of
\* { } < > [ ], and no text that convert returns does.
C7_NoDangerousCharacter ==
    /\ \A i \in 1..Len(trace) :
           trace[i].name = "remove_dangerous_punctuation"
               => Range(trace[i].output) \cap Dangerous = {}
    /\ \A i \in 1..Len(outputs) : Range(outputs[i]) \cap Dangerous = {}

\* the stages that spell dates, symbols, numbers, acronyms and lists
Conversions ==
    {"normalize_dates", "normalize_symbols", "normalize_numbers", "normalize_acronyms",
     "flatten_lists"}

\* C10 as stated: when convert has run on its own result, the second result
\* is the first one with its whitespace canonicalized, and during the second
\* run no conversion stage changed the text.
C10_SecondRunOnlyWhitespace ==
    (pc = "converted" /\ Len(outputs) = 2) =>
        /\ outputs[2] = normalize_whitespace(outputs[1])
        /\ \A i \in 1..Len(trace) : trace[i].name \in Conversions => ~Fired(i)

\* what convert returns for t when it runs alone, with the acronyms taken in
\* the order of their listing
ConvertAlone(t) ==
    Then(Then(Then(Then(Then(Then(Then(Then(Then(Then(Then(Then(Then(t,
        strip_html), strip_markdown), normalize_whitespace),
        remove_dangerous_punctuation), strip_control_characters), remove_emojis),
        replace_special_unicode), normalize_dates), normalize_symbols),
        normalize_numbers), LAMBDA v : normalize_acronyms(v, LETTER_ACRONYMS)),
        flatten_lists), normalize_whitespace)

Blanks == SpaceChars \ {"\n"}

\* the shape of a canonical text: no "\r" and no tab, no two whitespace
\* characters other than newlines in a row, no whitespace at either end of a
\* line or of the text, no three newlines in a row
Canonical(t) ==
    /\ Range(t) \cap {"\r", "\t"} = {}
    /\ \A i \in 1..(Len(t) - 1) : ~(t[i] \in Blanks /\ t[i + 1] \in Blanks)
    /\ \A i \in 1..Len(t) :
           t[i] \in Blanks => /\ i > 1
                              /\ i < Len(t)
                              /\ t[i - 1] # "\n"
                              /\ t[i + 1] # "\n"
    /\ \A i \in 1..(Len(t) - 2) : ~(t[i] = "\n" /\ t[i + 1] = "\n" /\ t[i + 2] = "\n")
    /\ t # <<>> => t[1] \notin SpaceChars /\ t[Len(t)] \notin SpaceChars

\* C9: every output of normalize_whitespace is canonical, and
\* normalize_whitespace applied to its own output returns it unchanged.
C9_WhitespaceIdempotent ==
    /\ \A i \in 1..Len(trace) : Canonical(trace[i].output)
    /\ Len(trace) = 2 => trace[2].output = trace[1].output

\* the second call has returned, for a text with "\r" and a tab whose
\* canonical form keeps a space and a newline
C9_Witness ==
    /\ Len(trace) = 2
    /\ {"\r", "\t"} \subseteq Range(trace[1].input)
    /\ {" ", "\n"} \subseteq Range(trace[1].output)

(***************************************************************************)
(* The claim about the markup stripper, checked under SpecMarkup           *)
(***************************************************************************)

\* whether t holds a tag: "<", one or more characters other than ">", ">"
HasTag(t) ==
    \E i \in 1..Len(t) : \E j \in (i + 2)..Len(t) :
        /\ t[i] = "<"
        /\ t[j] = ">"
        /\ \A m \in (i + 1)..(j - 1) : t[m] # ">"

\* C8 as stated: the output of strip_html followed by strip_markdown holds
\* no "<" and no ">".
C8_NoAngleBracket ==
    Len(trace) = 2 => Range(trace[2].output) \cap {"<", ">"} = {}

\* C8, amended: for a text without "&", the output of strip_html and the
\* output of strip_markdown after it hold no tag.
C8_NoTagWithoutEntity ==
    \A i \in 1..Len(trace) :
        "&" \notin Range(trace[1].input) => ~HasTag(trace[i].output)

\* strip_markdown has returned, for a text without "&" that held a tag, a
\* text that still holds a "<"
C8_Witness ==
    /\ Len(trace) = 2
    /\ "&" \notin Range(trace[1].input)
    /\ HasTag(trace[1].input)
    /\ "<" \in Range(trace[2].output)

(***************************************************************************)
(* The claim about years, checked under SpecYears                          *)
(***************************************************************************)

\* the number that ends text t: what follows its last space
LastToken(t) == From(t, SpanBack(t, Range(t) \ {" "}) + 1)

\* the words of the number with the decimal digits ds
Cardinal(ds) == number_to_words(ParseInt(ds))

\* the four digits y read as two pairs
TwoPairs(y) ==
    IF SubSeq(y, 3, 4) = <<"0", "0">> THEN Cardinal(SubSeq(y, 1, 2)) \o Chars(" hundred")
    ELSE IF y[3] = "0" THEN Cardinal(SubSeq(y, 1, 2)) \o Chars(" oh ") \o Cardinal(<<y[4]>>)
    ELSE Cardinal(SubSeq(y, 1, 2)) \o <<" ">> \o Cardinal(SubSeq(y, 3, 4))

IsYear(ds) == Len(ds) = 4 /\ DecValue(ds) >= 1900 /\ DecValue(ds) <= 2099

\* how the claim reads the number with the digits ds
YearReading(ds) == IF IsYear(ds) THEN TwoPairs(ds) ELSE Cardinal(ds)

\* C12: normalize_numbers spells a number of four digits from 1900 to 2099 as
\* two pairs and any other number as a cardinal, and normalize_dates spells
\* the year of a date the same way.
C12_YearReadAlike ==
    Len(trace) = 2 =>
        LET input == trace[1].input
            y == LastToken(input)
        IN  trace[2].output =
                IF input = y THEN YearReading(y)
                ELSE Chars("January two, ") \o YearReading(y) \o <<" ">> \o YearReading(y)

\* both calls have returned for a date of a year from 2001 to 2009
C12_Witness ==
    /\ Len(trace) = 2
    /\ trace[1].input # LastToken(trace[1].input)
    /\ IsYear(LastToken(trace[1].input))
    /\ SubSeq(LastToken(trace[1].input), 1, 3) = <<"2", "0", "0">>
    /\ trace[2].output # trace[1].output

(***************************************************************************)
(* The claim about dates, checked under SpecDates                          *)
(***************************************************************************)

MonthNames ==
    << "January", "February", "March", "April", "May", "June", "July", "August",
       "September", "October", "November", "December" >>

\* the first and the last position of character c in t
First(t, c) == CHOOSE i \in 1..Len(t) : t[i] = c /\ \A j \in 1..(i - 1) : t[j] # c

Last(t, c) == CHOOSE i \in 1..Len(t) : t[i] = c /\ \A j \in (i + 1)..Len(t) : t[j] # c

\* the three fields of a date, which its separator c parts
DateFields(t, c) ==
    << SubSeq(t, 1, First(t, c) - 1), SubSeq(t, First(t, c) + 1, Last(t, c) - 1),
       SubSeq(t, Last(t, c) + 1, Len(t)) >>

\* whether out spells the date of month m, day d and year y
SpellsDate(out, m, d, y) ==
    \E n \in 1..Len(MonthNames) :
        /\ DecValue(m) = n
        /\ out = Chars(MonthNames[n]) \o <<" ">> \o Cardinal(d) \o Chars(", ") \o YearReading(y)

\* C13 as stated: in convert, normalize_dates turns a date into the name of
\* its month, its day in words, a comma and its year in words, and the stages
\* after it leave that as it is.
C13_DatesSpelled ==
    pc = "converted" =>
        LET date == trace[8].input
            us == DateFields(date, "/")
            iso == DateFields(date, "-")
        IN  /\ trace[8].name = "normalize_dates"
            /\ IF "/" \in Range(date) THEN SpellsDate(trace[8].output, us[1], us[2], us[3])
               ELSE SpellsDate(trace[8].output, iso[2], iso[3], iso[1])
            /\ text = trace[8].output

(***************************************************************************)
(* The claim about currency amounts, checked under SpecCurrency            *)
(***************************************************************************)

\* the names of the units and of their hundredths, as the claim gives them
UnitName(c) ==
    CASE c = "$" -> "dollars" [] c = "U+20AC" -> "euros" [] c = "U+00A3" -> "pounds"
      [] c = "U+00A5" -> "yen"

HundredthName(c) == IF c = "U+00A3" THEN "pence" ELSE "cents"

\* how the claim reads the amount t: a symbol, digits, and perhaps "." and two digits
AmountReading(t) ==
    LET digits == From(t, 2)
        whole == IF "." \in Range(digits) THEN SubSeq(digits, 1, First(digits, ".") - 1)
                 ELSE digits
        cents == IF "." \in Range(digits) THEN From(digits, First(digits, ".") + 1)
                 ELSE <<"0">>
    IN  Cardinal(whole) \o <<" ">> \o Chars(UnitName(t[1]))
            \o (IF DecValue(cents) > 0
                THEN Chars(" and ") \o Cardinal(cents) \o <<" ">> \o Chars(HundredthName(t[1]))
                ELSE <<>>)

\* C14 as stated: normalize_symbols spells an amount as its whole part and the
\* unit, followed, when the two digits after the point are not 00, by "and",
\* their number and "cents", or "pence" for pounds.
C14_AmountsSpelled ==
    Len(trace) = 1 => trace[1].output = AmountReading(trace[1].input)

(***************************************************************************)
(* The claim about percentages, checked under SpecPercent                  *)
(***************************************************************************)

\* the digits ds, each as a word, with spaces between
RECURSIVE DigitByDigit(_)
DigitByDigit(ds) ==
    IF Len(ds) = 1 THEN Cardinal(ds)
    ELSE Cardinal(<<ds[1]>>) \o <<" ">> \o DigitByDigit(From(ds, 2))

\* how the claim reads the number num of a percentage
PercentReading(num) ==
    IF "." \in Range(num)
    THEN Cardinal(SubSeq(num, 1, First(num, ".") - 1)) \o Chars(" point ")
             \o DigitByDigit(From(num, First(num, ".") + 1)) \o Chars(" percent")
    ELSE Cardinal(num) \o Chars(" percent")

\* the number of the percentage t: its digits and its point
PercentNumber(t) == SelectSeq(t, LAMBDA c : c \in Digits \cup {"."})

\* what t has before its number
PercentPrefix(t) == SubSeq(t, 1, Span(t, 1, {"$"}) - 1)

\* C15 as stated: normalize_symbols spells a number followed by a percent sign
\* as the number's words and "percent", the digits after a point one by one,
\* and leaves no "%".
C15_PercentagesSpelled ==
    Len(trace) = 1 =>
        /\ trace[1].output
               = PercentPrefix(trace[1].input) \o PercentReading(PercentNumber(trace[1].input))
        /\ "%" \notin Range(trace[1].output)

(***************************************************************************)
(* The claim about clock times, checked under SpecTime                     *)
(***************************************************************************)

\* how the claim reads the time t: an hour, ":", two digits of minutes, and
\* perhaps a marker after them
TimeReading(t) ==
    LET colon == First(t, ":")
        hour == SubSeq(t, 1, colon - 1)
        minute == SubSeq(t, colon + 1, colon + 2)
        marker == Lower(SelectSeq(From(t, colon + 3), LAMBDA c : c \in AsciiLetters))
    IN  Cardinal(hour)
            \o (IF DecValue(minute) = 0 THEN Chars(" o'clock")
                ELSE IF DecValue(minute) < 10 THEN Chars(" oh ") \o Cardinal(minute)
                ELSE <<" ">> \o Cardinal(minute))
            \o (IF marker = <<>> THEN <<>> ELSE <<" ", marker[1], " ", marker[2]>>)

\* C16 as stated: normalize_symbols spells a time as its hour and "o'clock",
\* "oh" and the minutes, or the minutes, and a marker AM or PM after it, with
\* or without dots and in either case, as its two letters in lower case.
C16_TimesSpelled ==
    Len(trace) = 1 => trace[1].output = TimeReading(trace[1].input)

(***************************************************************************)
(* The claim about acronyms, checked under SpecAcronyms                    *)
(***************************************************************************)

\* word w without the period that ends it, if one does
Undotted(w) == IF w # <<>> /\ w[Len(w)] = "." THEN SubSeq(w, 1, Len(w) - 1) ELSE w

\* the characters of w in upper case, with single spaces between
RECURSIVE LettersApart(_)
LettersApart(w) ==
    IF Len(w) <= 1 THEN Upper(w)
    ELSE <<UpperChar(w[1]), " ">> \o LettersApart(From(w, 2))

\* how the claim reads one word: an abbreviation of the expansion table, with
\* or without a period after it, as its expansion; else a member of the
\* letter table as its letters, a period after it kept; else as it is
WordReading(w) ==
    LET base == Undotted(w)
        rest == From(w, Len(base) + 1)
    IN  IF \E n \in 1..Len(EXPANDED_ACRONYMS) : Chars(EXPANDED_ACRONYMS[n][1]) = Lower(base)
        THEN Chars(EXPANDED_ACRONYMS[CHOOSE n \in 1..Len(EXPANDED_ACRONYMS) :
                                         Chars(EXPANDED_ACRONYMS[n][1]) = Lower(base)][2])
        ELSE IF \E n \in 1..Len(LETTER_ACRONYMS) : Upper(Chars(LETTER_ACRONYMS[n])) = Upper(base)
        THEN LettersApart(base) \o rest
        ELSE w

\* the words of t, which single spaces part, each as the claim reads it
RECURSIVE WordsReading(_)
WordsReading(t) ==
    IF " " \in Range(t)
    THEN WordReading(SubSeq(t, 1, First(t, " ") - 1)) \o <<" ">>
             \o WordsReading(From(t, First(t, " ") + 1))
    ELSE WordReading(t)

StandaloneIT(s, i) ==
    IF /\ i + 1 <= Len(s)
       /\ SubSeq(s, i, i + 1) = <<"I", "T">>
       /\ NoWordBefore(s, i)
       /\ NoWordAt(s, i + 2)
       /\ ~At(s, i + 2, <<"'">>)
    THEN i + 2 ELSE 0

\* the text with each standalone upper-case "IT" as "I T", the rest as it is
PronounReading(t) == ReSub(StandaloneIT, LAMBDA s, i, e : Chars("I T"), t)

\* C18: normalize_acronyms leaves the lower-case word "it" and the word before
\* an apostrophe ("IT's", "it's") as they are, and rewrites a standalone
\* upper-case "IT" to "I T".
C18_PronounKept ==
    Len(trace) = 1 => trace[1].output = PronounReading(trace[1].input)

(***************************************************************************)
(* The claim about lists, checked under SpecLists                          *)
(***************************************************************************)

\* the position after the prefix of a list line and the whitespace after it,
\* or 0 for a line without a prefix, whitespace after it and an item
PrefixEnd(line) ==
    LET b == Span(line, 1, SpaceChars)
        d == Span(line, b, Digits)
        p == IF b <= Len(line) /\ line[b] \in {"-", "*", "U+2022"} THEN b + 1
             ELSE IF d > b /\ d <= Len(line) /\ line[d] \in {".", ")"} THEN d + 1
             ELSE 0
        e == IF p = 0 THEN 0 ELSE Span(line, p, SpaceChars)
    IN  IF p > 0 /\ e > p /\ e <= Len(line) THEN e ELSE 0

IsListLine(line) == PrefixEnd(line) > 0

\* the connector word of the i-th item of a run
Connector(i) ==
    IF i <= 10
    THEN Chars(<< "Firstly", "Secondly", "Thirdly", "Fourthly", "Fifthly",
                  "Sixthly", "Seventhly", "Eighthly", "Ninthly", "Tenthly" >>[i])
    ELSE Chars("Additionally")

\* the line for the run of list lines lo..hi: the one item as it is, or the
\* items in order after their connectors, each in the case that
\* _list_to_prose gives to an item of several
RunReading(ls, lo, hi) ==
    IF lo = hi THEN From(ls[lo], PrefixEnd(ls[lo]))
    ELSE Join([i \in 1..(hi - lo + 1) |->
                  Connector(i) \o Chars(", ")
                      \o Decapitalized(From(ls[lo + i - 1], PrefixEnd(ls[lo + i - 1])))],
              <<" ">>)

\* the last line of the maximal run of list ls that starts at lo
RECURSIVE RunEnd(_, _)
RunEnd(ls, lo) ==
    IF lo < Len(ls) /\ IsListLine(ls[lo + 1]) THEN RunEnd(ls, lo + 1) ELSE lo

\* the ls that the claim states for the ls from n on
RECURSIVE LinesReading(_, _)
LinesReading(ls, n) ==
    IF n > Len(ls) THEN <<>>
    ELSE IF IsListLine(ls[n])
    THEN <<RunReading(ls, n, RunEnd(ls, n))>> \o LinesReading(ls, RunEnd(ls, n) + 1)
    ELSE <<ls[n]>> \o LinesReading(ls, n + 1)

ListReading(t) == Join(LinesReading(SplitLines(t), 1), <<"\n">>)

\* C19: flatten_lists replaces each maximal run of list lines by one line: the
\* item without its prefix for a run of one, and for a longer run the items in
\* order, the i-th after the i-th of Firstly, ..., Tenthly or, past the
\* tenth, after "Additionally,", with single spaces between; a run at the end
\* of the text included.  The other lines stay.
C19_RunsFlattened ==
    Len(trace) = 1 => trace[1].output = ListReading(trace[1].input)

\* the call has returned for a run of more than ten items at the end of the
\* text, after a line that is no list line
C19_Witness ==
    /\ Len(trace) = 1
    /\ trace[1].input = Chars("x") \o <<"\n">> \o ListRun(MaxListItems)
    /\ Len(SplitLines(trace[1].output)) = 2
    /\ \E i \in 1..Len(trace[1].output) :
           At(trace[1].output, i, Chars("Tenthly, a Additionally, bee c"))

(***************************************************************************)
(* The claim about list blocks in convert, checked under SpecBlocks        *)
(***************************************************************************)

\* the prose for the first n items
Prose(n) ==
    Join([i \in 1..n |-> Connector(i) \o Chars(", ") \o Chars(BlockItems[i])], <<" ">>)

\* C20: convert turns a block of two or more list lines, whatever the kind of
\* their prefix (dash, asterisk, bullet dot, digit-dot, digit-paren), into the
\* prose of its items after Firstly, Secondly, ...: the prefixes reach
\* flatten_lists as they were.
C20_BlocksComeOutAsProse ==
    pc = "converted" =>
        \E n \in BlockSizes :
            text \in {Prose(n), Chars("x\n") \o Prose(n)}

(***************************************************************************)
(* The claim about number words, checked under SpecIntegers                *)
(***************************************************************************)

UnitWords ==
    << "one", "two", "three", "four", "five", "six", "seven", "eight", "nine" >>

TeenWords ==
    << "ten", "eleven", "twelve", "thirteen", "fourteen", "fifteen", "sixteen",
       "seventeen", "eighteen", "nineteen" >>

TensWords ==
    << "twenty", "thirty", "forty", "fifty", "sixty", "seventy", "eighty", "ninety" >>

ScaleWords == << "thousand", "million", "billion", "trillion" >>

\* the English spelling of the two digits t, o: <<>> for 00
PairSpelling(t, o) ==
    IF t = "0" THEN (IF o = "0" THEN <<>> ELSE Chars(UnitWords[DigitValue(o)]))
    ELSE IF t = "1" THEN Chars(TeenWords[DigitValue(o) + 1])
    ELSE Chars(TensWords[DigitValue(t) - 1])
             \o (IF o = "0" THEN <<>> ELSE <<"-">> \o Chars(UnitWords[DigitValue(o)]))

\* the English spelling of the group of digits h, t, o: <<>> for 000
GroupSpelling(g) ==
    LET hundreds == IF g[1] = "0" THEN <<>>
                    ELSE <<Chars(UnitWords[DigitValue(g[1])]) \o Chars(" hundred")>>
        pair == IF PairSpelling(g[2], g[3]) = <<>> THEN <<>> ELSE <<PairSpelling(g[2], g[3])>>
    IN  Join(hundreds \o pair, <<" ">>)

\* the digits ds with zeros before them, to a multiple of three
RECURSIVE Padded(_)
Padded(ds) == IF Len(ds) % 3 = 0 THEN ds ELSE Padded(<<"0">> \o ds)

\* the spelled groups of the padded digits ds that are not zero, each with
\* its scale word, the most significant first
RECURSIVE GroupSpellings(_)
GroupSpellings(ds) ==
    IF ds = <<>> THEN <<>>
    ELSE LET g == SubSeq(ds, 1, 3)
             scale == (Len(ds) \div 3) - 1
         IN  (IF g = Chars("000") THEN <<>>
              ELSE IF scale = 0 THEN <<GroupSpelling(g)>>
              ELSE <<GroupSpelling(g) \o <<" ">> \o Chars(ScaleWords[scale])>>)
                 \o GroupSpellings(From(ds, 4))

\* the reference English spelling of the decimal literal t
Spelling(t) ==
    IF t = <<"0">> THEN Chars("zero")
    ELSE IF t[1] = "-" THEN Chars("negative ") \o Join(GroupSpellings(Padded(From(t, 2))), <<" ">>)
    ELSE Join(GroupSpellings(Padded(t)), <<" ">>)

\* C21: for every integer that has a scale word for each of its 3-digit
\* groups, _number_to_words gives the reference English spelling: "zero",
\* "negative " before the spelling of -n, and the groups that are not zero
\* with their scale words, the most significant first, single spaces between;
\* the result is not empty and has no two spaces in a row.
C21_SpelledAsInEnglish ==
    Len(trace) = 1 =>
        /\ trace[1].output = Spelling(trace[1].input)
        /\ trace[1].output # <<>>
        /\ ~\E i \in 1..Len(trace[1].output) : At(trace[1].output, i, Chars("  "))

\* the call has returned for a negative integer with a group of zero between
\* two others
C21_Witness ==
    /\ Len(trace) = 1
    /\ trace[1].input = Chars("-21000100")
    /\ trace[1].output = Chars("negative twenty-one million one hundred")

(***************************************************************************)
(* The claim about ordinals and digit runs, checked under SpecNumbers      *)
(***************************************************************************)

OrdinalWords ==
    << "first", "second", "third", "fourth", "fifth", "sixth", "seventh", "eighth",
       "ninth", "tenth", "eleventh", "twelfth", "thirteenth", "fourteenth", "fifteenth",
       "sixteenth", "seventeenth", "eighteenth", "nineteenth", "twentieth",
       "twenty-first", "twenty-second", "twenty-third", "twenty-fourth", "twenty-fifth",
       "twenty-sixth", "twenty-seventh", "twenty-eighth", "twenty-ninth", "thirtieth",
       "thirty-first" >>

\* the letters after the digits of the ordinal token of v
OrdinalSuffix(v) ==
    IF v % 10 = 1 /\ v # 11 THEN Chars("st")
    ELSE IF v % 10 = 2 /\ v # 12 THEN Chars("nd")
    ELSE IF v % 10 = 3 /\ v # 13 THEN Chars("rd")
    ELSE Chars("th")

\* whether the digits ds, with the two characters after them, are an ordinal
\* token from 1st to 31st
IsOrdinalToken(ds, suffix) ==
    /\ Len(ds) <= 2
    /\ ds[1] # "0"
    /\ DecValue(ds) <= Len(OrdinalWords)
    /\ Lower(suffix) = OrdinalSuffix(DecValue(ds))

\* a word-delimited ordinal token or digit run at i: the position after it, or 0
NumberToken(s, i) ==
    IF i <= Len(s) /\ s[i] \in Digits /\ Boundary(s, i)
    THEN LET e == Span(s, i, Digits)
         IN  IF Boundary(s, e) THEN e
             ELSE IF e + 1 <= Len(s) /\ IsOrdinalToken(Slice(s, i, e), SubSeq(s, e, e + 1))
                        /\ Boundary(s, e + 2)
             THEN e + 2
             ELSE 0
    ELSE 0

\* the word of an ordinal token, the spelling of a digit run
TokenReading(s, i, e) ==
    IF s[e - 1] \in Digits THEN YearReading(Slice(s, i, e))
    ELSE Chars(OrdinalWords[DecValue(Slice(s, i, e - 2))])

NumbersReading(t) == ReSub(NumberToken, TokenReading, t)

\* C22: normalize_numbers replaces each word-delimited ordinal token from 1st
\* to 31st, in either case, by its ordinal word, and then each word-delimited
\* digit run that is left by its spelling: every call returns, and the digits
\* of an ordinal are never spelled as a cardinal.
C22_OrdinalsThenCardinals ==
    /\ pc # "raised"
    /\ Len(trace) = 1 => trace[1].output = NumbersReading(trace[1].input)

(***************************************************************************)
(* The claim about months outside the table, checked under SpecMonths      *)
(***************************************************************************)

\* the date of month m, day d and year y with the digits of the month for
\* its name
DigitsForMonth(m, d, y) == m \o <<" ">> \o Cardinal(d) \o Chars(", ") \o YearReading(y)

\* C23: for a date whose month is outside 1..12, normalize_dates returns, and
\* what it returns is the digits of the month, the day in words, a comma and
\* the year in words.
C23_MonthDigitsKept ==
    /\ pc # "raised"
    /\ Len(trace) = 1 =>
           LET date == trace[1].input
               us == DateFields(date, "/")
               iso == DateFields(date, "-")
               month == IF "/" \in Range(date) THEN us[1] ELSE iso[2]
               day == IF "/" \in Range(date) THEN us[2] ELSE iso[3]
               year == IF "/" \in Range(date) THEN us[3] ELSE iso[1]
           IN  DecValue(month) \notin 1..12 =>
                   trace[1].output = DigitsForMonth(month, day, year)

\* the call has returned for a date in each shape with a month outside 1..12
C23_Witness ==
    /\ Len(trace) = 1
    /\ \/ /\ trace[1].input = Chars("13/1/2025")
          /\ trace[1].output = Chars("13 one, twenty twenty-five")
       \/ /\ trace[1].input = Chars("0999-00-31")
          /\ trace[1].output = Chars("00 thirty-one, nine hundred ninety-nine")

(***************************************************************************)
(* The claim about the case of list items, checked under SpecItems         *)
(***************************************************************************)

\* the item with its leading word in lower case, when its first character is
\* in upper case and its second is not; else the item as it is
LeadingWordLowered(item) ==
    IF item[1] \in UpperSet /\ ~(Len(item) >= 2 /\ item[2] \in UpperSet)
    THEN LET e == Span(item, 1, Range(item) \ {" "})
         IN  Lower(Slice(item, 1, e)) \o From(item, e)
    ELSE item

\* C24: of an item of a list of several, _list_to_prose lower-cases the
\* leading word alone, and that only when the first character of the item is
\* in upper case and the second is not: what comes after the leading word
\* keeps its case.
C24_LeadingWordAloneLowered ==
    (Len(trace) = 1 /\ Len(SplitLines(trace[1].input)) >= 2) =>
        LET items == SplitLines(trace[1].input)
        IN  trace[1].output =
                Join([i \in 1..Len(items) |->
                         Connector(i) \o Chars(", ") \o LeadingWordLowered(items[i])],
                     <<" ">>)

(***************************************************************************)
(* The claim about the loop of flatten_lists, checked under SpecFlatten    *)
(***************************************************************************)

\* the lines 1..n of ls that are no list lines, in order
OtherLines(ls, n) == SelectSeq(SubSeq(ls, 1, n), LAMBDA l : ~IsListLine(l))

\* the number of blocks of list lines among the lines 1..n of ls: the list
\* lines that start one
BlockCount(ls, n) ==
    Cardinality({i \in 1..n : IsListLine(ls[i]) /\ (i = 1 \/ ~IsListLine(ls[i - 1]))})

\* C25: flatten_lists emits each line that is no list line as it is, and the
\* blocks and the other lines in the order of the text, each item once; the
\* pending items are none whenever a line that is no list line has just been
\* emitted; and the lines of the output are as many as the lines that are no
\* list lines and the blocks together.
C25_OtherLinesPassThrough ==
    /\ (pc = "lines" /\ line_no > 1 /\ ~IsListLine(lines[line_no - 1])) =>
           /\ list_items = <<>>
           /\ result[Len(result)] = lines[line_no - 1]
    /\ pc = "lines" =>
           Len(result) + (IF list_items # <<>> THEN 1 ELSE 0)
               = Len(OtherLines(lines, line_no - 1)) + BlockCount(lines, line_no - 1)
    /\ (pc = "returned" /\ Len(trace) = 1) =>
           LET out == SplitLines(trace[1].output)
               in == SplitLines(trace[1].input)
           IN  /\ Len(out) = Len(OtherLines(in, Len(in))) + BlockCount(in, Len(in))
               /\ out = LinesReading(in, 1)
               /\ out = result

\* the call has returned for a text with a line that is no list line between
\* two blocks
C25_Witness ==
    /\ pc = "returned"
    /\ trace[1].input = ListRun(2) \o Chars("\nx\n") \o ListRun(1)
    /\ result = <<Chars("Firstly, a Secondly, bee c"), Chars("x"), Chars("a")>>

(***************************************************************************)
(* The claim about the hazard filter, checked under SpecHazard             *)
(***************************************************************************)

\* the four passes in the order of convert
InConvertOrder(t) ==
    replace_special_unicode(remove_emojis(strip_control_characters(
        remove_dangerous_punctuation(t))))

\* C26: the four passes of the hazard filter commute: called in any order,
\* they give what they give in the order of convert.
C26_PassesCommute ==
    Len(trace) = 4 => text = InConvertOrder(trace[1].input)

(***************************************************************************)
(* The claims about the packing of chunks, checked under SpecChunk         *)
(***************************************************************************)

\* C27: chunk_text closes a chunk only when the next sentence does not fit:
\* for every chunk with a chunk after it whose first sentence is not longer
\* than max_chars, the chunk, a space and that sentence together are longer
\* than max_chars; and in the loop current_length is the length of the
\* pending sentences joined by single spaces.
C27_PackedGreedily ==
    pc \in {"loop", "done"} =>
        /\ \A i \in 1..(Len(chunks) - 1) :
               Len(origin[i + 1][1]) <= max_chars =>
                   Len(chunks[i]) + 1 + Len(origin[i + 1][1]) > max_chars
        /\ pc = "loop" => current_length = Len(Join(current_chunk, <<" ">>))

\* a call has returned a chunk of several sentences that the next sentence,
\* itself within the limit, did not fit
C27_Witness ==
    /\ pc = "done"
    /\ \E i \in 1..(Len(chunks) - 1) :
           /\ Len(origin[i]) >= 2
           /\ Len(chunks[i]) <= max_chars
           /\ Len(origin[i + 1][1]) <= max_chars

\* C28: no chunk that chunk_text returns is empty or made of whitespace alone:
\* no empty sentence is in a chunk, a text that is empty or made of whitespace
\* alone gives no chunk, and every chunk but the last ends with ".", "!" or "?".
C28_NoEmptyChunk ==
    pc = "done" =>
        /\ \A i \in 1..Len(chunks) :
               /\ Strip(chunks[i]) # <<>>
               /\ \A j \in 1..Len(origin[i]) : origin[i][j] # <<>>
               /\ i < Len(chunks) => chunks[i][Len(chunks[i])] \in {".", "!", "?"}
        /\ Strip(text) = <<>> => chunks = <<>>

\* a call has returned several chunks for a text whose last sentence, after
\* the whitespace that ends the text, is empty and was dropped
C28_Witness ==
    /\ pc = "done"
    /\ Len(chunks) >= 2
    /\ sentences[Len(sentences)] = <<>>
    /\ \A i \in 1..Len(chunks) : chunks[i][Len(chunks[i])] = "."

(***************************************************************************)
(* The claim about the text around a literal, checked under SpecFramed     *)
(***************************************************************************)

\* C29: normalize_symbols rewrites the literal alone: the text before a time
\* without a marker, an amount or a percentage and the text after it, the
\* whitespace that starts it included, are in the output as they were.
C29_SurroundingTextKept ==
    Len(trace) = 1 =>
        \E b \in FrameBefores, l \in FrameLiterals, a \in FrameAfters :
            /\ trace[1].input = Chars(b) \o Chars(l) \o Chars(a)
            /\ trace[1].output = Chars(b) \o normalize_symbols(Chars(l)) \o Chars(a)

(***************************************************************************)
(* transcript.py: convert_articles, run on an input directory of articles  *)
(* and an output directory of transcripts, one pass of its loop at a time. *)
(***************************************************************************)

\* the statements of convert before normalize_acronyms
ConvertedBefore(t) ==
    Then(Then(Then(Then(Then(Then(Then(Then(Then(Then(t,
        strip_html), strip_markdown), normalize_whitespace),
        remove_dangerous_punctuation), strip_control_characters), remove_emojis),
        replace_special_unicode), normalize_dates), normalize_symbols),
        normalize_numbers)

\* normalize_acronyms, with the acronyms taken in the order, and the
\* statements after it; and what converter.convert(t) returns
ConvertedAfter(before, order) ==
    Then(Then(normalize_acronyms(before, order), flatten_lists), normalize_whitespace)

convert(t, order) == ConvertedAfter(ConvertedBefore(t), order)

\* the content after the first line that is "---", or all of it
extract_content(t) ==
    LET split == SplitLines(t)
        headers == {i \in 1..Len(split) : Strip(split[i]) = Chars("---")}
        content_start ==
            IF headers = {} THEN 0
            ELSE CHOOSE i \in headers : \A j \in headers : i <= j
    IN  Join(SubSeq(split, content_start + 1, Len(split)), <<"\n">>)

\* published_at of the metadata of the article as yyyymmdd, or nothing when
\* there is no metadata file or it names no date
get_publication_date(slug) ==
    LET date_str == input_dir[slug].published_at
        cut == {i \in 1..Len(date_str) : date_str[i] = "."}
        iso == IF cut = {} THEN date_str
               ELSE SubSeq(date_str, 1, (CHOOSE i \in cut : \A j \in cut : i <= j) - 1)
    IN  IF date_str = <<>> THEN <<>>
        ELSE SubSeq(iso, 1, 4) \o SubSeq(iso, 6, 7) \o SubSeq(iso, 9, 10)

\* the name of the transcript of the article
output_file(slug) ==
    LET date_prefix == get_publication_date(slug)
    IN  IF date_prefix # <<>> THEN date_prefix \o <<"_">> \o slug \o Chars(".txt")
        ELSE slug \o Chars(".txt")

MaxRuns == 2

ArticleSlugs == {"x", "20220112_x", "y"}

PublishedAts == {"", "2022-01-12T11:58:40.000-08:00"}

ArticleTexts == {"t\n---\nAI", "1000000000000000"}

TranscriptNames == {"x.txt", "20220112_x.txt"}

\* the directories of articles: each has an article.txt and may have metadata
InputDirs ==
    UNION {[{Chars(slug) : slug \in slugs} ->
               [published_at : {Chars(p) : p \in PublishedAts},
                text : {Chars(t) : t \in ArticleTexts}]] : slugs \in SUBSET ArticleSlugs}

\* the directories of transcripts written by earlier runs
OutputDirs ==
    {[f \in {Chars(name) : name \in names} |-> Chars("old")] : names \in SUBSET TranscriptNames}

\* the orders in which glob can list the members of a set
Orderings(S) ==
    {order \in [1..Cardinality(S) -> S] :
        \A i, j \in 1..Cardinality(S) : order[i] = order[j] => i = j}

GiveDirectories ==
    /\ pc = "start"
    /\ pc' = "given"
    /\ input_dir' \in InputDirs
    /\ output_dir' \in OutputDirs
    /\ UNCHANGED <<text, chunk_size, callVars, chunkVars, threadVars, listVars, articles,
                   article_no, converted, skipped>>

\* the statements before the loop: glob, the return when there is no article,
\* and the two counters
CallConvertArticles ==
    /\ pc \in {"given", "done"}
    /\ stage < MaxRuns
    /\ articles' \in Orderings(DOMAIN input_dir)
    /\ article_no' = 1
    /\ IF articles' = <<>>
       THEN /\ pc' = "done"
            /\ stage' = stage + 1
            /\ UNCHANGED <<converted, skipped>>
       ELSE /\ pc' = "articles"
            /\ converted' = 0
            /\ skipped' = 0
            /\ stage' = stage
    /\ UNCHANGED <<text, chunk_size, caller, trace, outputs, error, chunkVars, threadVars,
                   listVars, input_dir, output_dir>>

\* one pass of the loop for an article whose transcript exists
SkipArticle ==
    /\ pc = "articles"
    /\ article_no <= Len(articles)
    /\ output_file(articles[article_no]) \in DOMAIN output_dir
    /\ skipped' = skipped + 1
    /\ article_no' = article_no + 1
    /\ UNCHANGED <<pc, text, chunk_size, callVars, chunkVars, threadVars, listVars, input_dir,
                   output_dir, articles, converted>>

\* one pass of the loop for an article that has no transcript: the transcript
\* is written, or the exception of convert ends the run
ConvertArticle ==
    /\ pc = "articles"
    /\ article_no <= Len(articles)
    /\ output_file(articles[article_no]) \notin DOMAIN output_dir
    /\ \E content \in {extract_content(input_dir[articles[article_no]].text)} :
       \E before \in {ConvertedBefore(content)} :
       \E order \in OrdersFor(before) :
       \E clean \in {ConvertedAfter(before, order)} :
           IF Raised(clean)
           THEN /\ pc' = "raised"
                /\ error' = ErrorOf(clean)
                /\ UNCHANGED <<text, trace, output_dir, article_no, converted>>
           ELSE /\ pc' = pc
                /\ text' = content
                /\ output_dir' =
                       [f \in DOMAIN output_dir \cup {output_file(articles[article_no])} |->
                           IF f \in DOMAIN output_dir THEN output_dir[f] ELSE clean]
                /\ trace' = Append(trace, [name |-> "write_text",
                                           input |-> output_file(articles[article_no]),
                                           output |-> clean])
                /\ converted' = converted + 1
                /\ article_no' = article_no + 1
                /\ error' = error
    /\ UNCHANGED <<chunk_size, caller, stage, outputs, chunkVars, threadVars, listVars,
                   input_dir, articles, skipped>>

\* the end of the loop: the summary is printed and the function returns
ArticlesReturn ==
    /\ pc = "articles"
    /\ article_no > Len(articles)
    /\ pc' = "done"
    /\ stage' = stage + 1
    /\ UNCHANGED <<text, chunk_size, caller, trace, outputs, error, chunkVars, threadVars,
                   listVars, dirVars>>

NextArticles ==
    \/ GiveDirectories
    \/ CallConvertArticles
    \/ SkipArticle
    \/ ConvertArticle
    \/ ArticlesReturn

SpecArticles == Start /\ [][NextArticles]_vars

\* no run changes a transcript that exists
ExistingKept ==
    \A f \in DOMAIN output_dir : f \in DOMAIN output_dir' /\ output_dir'[f] = output_dir[f]

\* no transcript has been written twice
WrittenOnce == \A i, j \in 1..Len(trace) : trace[i].input = trace[j].input => i = j

\* every article that glob found has its transcript
AllTranscribed == \A i \in 1..Len(articles) : output_file(articles[i]) \in DOMAIN output_dir

\* C30: convert_articles never overwrites an existing transcript: a transcript
\* that exists is left unchanged by every step, no transcript is written
\* twice, when a run has ended every article found has its transcript, when
\* it has returned converted + skipped is the number of articles found, and
\* a second run after the first one has returned converts nothing.
C30_NeverOverwrites ==
    /\ [][ExistingKept]_vars
    /\ [](WrittenOnce)
    /\ [](pc \in {"done", "raised"} => AllTranscribed)
    /\ [](pc = "done" /\ articles # <<>> => converted + skipped = Len(articles))
    /\ [](pc = "done" /\ stage = MaxRuns => converted = 0)

====
